---- MODULE Spec2Model ----
(***************************************************************************)
(* ViewportSampler of the travel photo map: screen-space grid bucketing,   *)
(* priority scoring, marker diffing and the enter/exit timers, together    *)
(* with the Leaflet marker/layer-group behaviour the sampler relies on.    *)
(***************************************************************************)
EXTENDS Integers, Sequences, FiniteSets, TLC

(* ---------------------------------------------------------------------- *)
(* Bounds of the model                                                    *)
(* ---------------------------------------------------------------------- *)
\* longest photo collection the host hands to init()/setPhotos()
MaxPhotos == 2
\* number of marker handles createMarker() may allocate in one behaviour
MaxMarkers == 2
\* longest pending-writes queue a failing write may extend
MaxQueue == 2
\* number of toggleFavorite()/savePhoto*() writes awaiting their response
MaxRequests == 1
\* number of listeners onAuthChange() registers in one behaviour
MaxListeners == 2
\* number of ForceLayout.run() calls in one behaviour
MaxRuns == 2

(* ---------------------------------------------------------------------- *)
(* Program constants                                                      *)
(* ---------------------------------------------------------------------- *)
DefaultIconSize == 90
DefaultCellSize == 150
FavoriteBonus == 1000000
CaptionBonus == 1000
\* 0x3FF
HashMask == 1023

(* ---------------------------------------------------------------------- *)
(* Strings are sequences of character codes                               *)
(* ---------------------------------------------------------------------- *)
\* '|'
Pipe == 124

\* String(n) for the integers the model uses as coordinates
RECURSIVE NumToStr(_)
NumToStr(n) ==
    IF n < 0 THEN <<45>> \o NumToStr(0 - n)
    ELSE IF n < 10 THEN <<48 + n>>
    ELSE NumToStr(n \div 10) \o <<48 + (n % 10)>>

\* h = ((h << 5) - h + c) | 0 on a 32-bit integer kept as two 16-bit halves
HashStep(h, c) ==
    LET t == 31 * h.lo + c
    IN [lo |-> t % 65536, hi |-> (31 * h.hi + (t \div 65536)) % 65536]

RECURSIVE HashFrom(_, _, _)
HashFrom(h, s, i) ==
    IF i > Len(s) THEN h ELSE HashFrom(HashStep(h, s[i]), s, i + 1)

\* the signed 32-bit value of the two halves
ToInt32(h) ==
    IF h.hi >= 32768 THEN (h.hi - 65536) * 65536 + h.lo ELSE h.hi * 65536 + h.lo

stableHash(s) == ToInt32(HashFrom([lo |-> 0, hi |-> 0], s, 1))

photoKey(p) == p.url \o <<Pipe>> \o NumToStr(p.lat) \o <<Pipe>> \o NumToStr(p.lng)

\* h & 0x3FF of a two's complement integer is its residue modulo 1024
MaskedHash(p) == stableHash(photoKey(p)) % (HashMask + 1)

photoPriority(p) ==
    (IF p._isFavorite THEN FavoriteBonus ELSE 0)
    + (IF p.caption THEN CaptionBonus ELSE 0)
    + MaskedHash(p)

(* ---------------------------------------------------------------------- *)
(* The host's photo records                                               *)
(* ---------------------------------------------------------------------- *)
\* "um|0|0": captioned, hash component 0
PhotoUm == [url |-> <<117, 109>>, lat |-> 0, lng |-> 0, caption |-> TRUE, _isFavorite |-> FALSE]
\* "qh|0|0": no caption, hash component 1023
PhotoQh == [url |-> <<113, 104>>, lat |-> 0, lng |-> 0, caption |-> FALSE, _isFavorite |-> FALSE]
\* "ea|0|1": no caption, hash component 5
PhotoEa == [url |-> <<101, 97>>, lat |-> 0, lng |-> 1, caption |-> FALSE, _isFavorite |-> FALSE]
\* "if|0|0": no caption, hash component 5
PhotoIf == [url |-> <<105, 102>>, lat |-> 0, lng |-> 0, caption |-> FALSE, _isFavorite |-> FALSE]
\* "mc|0|1": captioned, flagged as favorite by the host
PhotoMc == [url |-> <<109, 99>>, lat |-> 0, lng |-> 1, caption |-> TRUE, _isFavorite |-> TRUE]

Catalog == {PhotoUm, PhotoQh, PhotoEa, PhotoIf, PhotoMc}

\* the photos the host's favorite store lists: one flagged record, one unflagged
CloudFavorites == {PhotoMc, PhotoEa}

RECURSIVE SeqsUpTo(_)
SeqsUpTo(n) ==
    IF n = 0 THEN {<<>>}
    ELSE LET shorter == SeqsUpTo(n - 1)
         IN shorter \cup {Append(s, p) : s \in {t \in shorter : Len(t) = n - 1},
                                         p \in Catalog}

Range(s) == {s[i] : i \in DOMAIN s}

\* the collections init() and setPhotos() receive: distinct records, any order
Collections == {s \in SeqsUpTo(MaxPhotos) : Cardinality(Range(s)) = Len(s)}

(* ---------------------------------------------------------------------- *)
(* The map: viewport bounds, container size and projection                *)
(* ---------------------------------------------------------------------- *)
\* what the map reports as its viewport: "ready" (a laid-out container),
\* "zero" (a container of 0 x 0 pixels, whose bounds collapse to one point) or
\* "nan" (bounds whose corners are NaN)
VARIABLE viewport

Viewports == {"ready", "zero", "nan"}

\* the container: pixels per degree at the model's zoom, width and height in pixels
Container ==
    [pxPerDeg |-> 60,
     width |-> IF viewport = "zero" THEN 0 ELSE 200,
     height |-> IF viewport = "zero" THEN 0 ELSE 100]
\* the longitudes the west edge of the viewport can be panned to
Wests == {0, 1}

\* map.latLngToContainerPoint(L.latLng(lat, lng))
latLngToContainerPoint(west, p) ==
    [x |-> (p.lng - west) * Container.pxPerDeg, y |-> p.lat * Container.pxPerDeg]

\* map.getBounds().contains(L.latLng(lat, lng))
\* (every comparison with a NaN corner is false)
boundsContains(west, p) ==
    LET pt == latLngToContainerPoint(west, p)
    IN /\ viewport /= "nan"
       /\ pt.x >= 0 /\ pt.x <= Container.width /\ pt.y >= 0 /\ pt.y <= Container.height

(* ---------------------------------------------------------------------- *)
(* update(): filter, bucket, select                                       *)
(* ---------------------------------------------------------------------- *)
\* a filter that skips the viewport test
VisiblePhotosUnculled(photos, west) ==
    LET Keep(p) == ~p._isFavorite
    IN SelectSeq(photos, Keep)

\* the photos that pass the viewport filter, in collection order
VisiblePhotos(photos, west) ==
    LET Keep(p) == ~p._isFavorite /\ boundsContains(west, p)
    IN SelectSeq(photos, Keep)

\* a grid three times finer than the configured one
CellOfFiner(p, west, cellSize) ==
    LET pt == latLngToContainerPoint(west, p)
    IN <<pt.x \div (cellSize \div 3), pt.y \div (cellSize \div 3)>>

\* Math.floor(pt.x / _cellSize) + ',' + Math.floor(pt.y / _cellSize)
CellOf(p, west, cellSize) ==
    LET pt == latLngToContainerPoint(west, p)
    IN <<pt.x \div cellSize, pt.y \div cellSize>>

\* the members of one cell, in the order they were pushed
Bucket(visible, cell, west, cellSize) ==
    LET In(p) == CellOf(p, west, cellSize) = cell
    IN SelectSeq(visible, In)

\* Object.keys(cells): the cells in the order of their first member
RECURSIVE CellKeys(_, _, _, _)
CellKeys(visible, i, west, cellSize) ==
    IF i > Len(visible) THEN <<>>
    ELSE LET c == CellOf(visible[i], west, cellSize)
             seen == {CellOf(visible[j], west, cellSize) : j \in 1..(i - 1)}
             rest == CellKeys(visible, i + 1, west, cellSize)
         IN IF c \in seen THEN rest ELSE <<c>> \o rest

\* comparator of bucket.sort(): negative when a sorts before b
Compare(a, b) == photoPriority(b) - photoPriority(a)

\* one insertion of a stable sort: x goes after every element it does not precede
RECURSIVE InsertSorted(_, _)
InsertSorted(sorted, x) ==
    IF sorted = <<>> THEN <<x>>
    ELSE IF Compare(x, Head(sorted)) < 0 THEN <<x>> \o sorted
    ELSE <<Head(sorted)>> \o InsertSorted(Tail(sorted), x)

\* bucket.sort(function (a, b) { return photoPriority(b) - photoPriority(a); })
RECURSIVE SortBucket(_)
SortBucket(bucket) ==
    IF bucket = <<>> THEN <<>>
    ELSE InsertSorted(SortBucket(SubSeq(bucket, 1, Len(bucket) - 1)), bucket[Len(bucket)])

\* the loop over cellKeys: one {photo, hiddenCount} entry per cell, later cells
\* overwriting an entry stored under the same key
RECURSIVE SelectWinners(_, _, _, _, _, _)
SelectWinners(acc, cells, i, visible, west, cellSize) ==
    IF i > Len(cells) THEN acc
    ELSE LET bucket == SortBucket(Bucket(visible, cells[i], west, cellSize))
             best == bucket[1]
             key == photoKey(best)
             entry == [photo |-> best, hiddenCount |-> Len(bucket) - 1]
             keys == DOMAIN acc \cup {key}
         IN SelectWinners([k \in keys |-> IF k = key THEN entry ELSE acc[k]],
                          cells, i + 1, visible, west, cellSize)

\* nextMarkers of one pass: key -> {photo, hiddenCount}
NextMarkers(photos, west, cellSize) ==
    LET visible == VisiblePhotos(photos, west)
        cells == CellKeys(visible, 1, west, cellSize)
    IN SelectWinners(<<>>, cells, 1, visible, west, cellSize)

\* Object.keys(nextMarkers) after the first n cells: keys in insertion order
RECURSIVE WinnerKeys(_, _, _, _, _)
WinnerKeys(cells, n, visible, west, cellSize) ==
    IF n = 0 THEN <<>>
    ELSE LET prev == WinnerKeys(cells, n - 1, visible, west, cellSize)
             key == photoKey(SortBucket(Bucket(visible, cells[n], west, cellSize))[1])
         IN IF key \in Range(prev) THEN prev ELSE Append(prev, key)

NextMarkerKeys(photos, west, cellSize) ==
    LET visible == VisiblePhotos(photos, west)
        cells == CellKeys(visible, 1, west, cellSize)
    IN WinnerKeys(cells, Len(cells), visible, west, cellSize)

(* ---------------------------------------------------------------------- *)
(* State                                                                  *)
(* ---------------------------------------------------------------------- *)
VARIABLES
    _map,             \* "null" or "map"
    _photos,          \* the working collection
    hostPhotos,       \* the array the host last passed in, as the host sees it
    _markers,         \* key -> marker handle
    _layerGroup,      \* "null" or "group"
    _iconSize,
    _cellSize,
    _onClickHandler,  \* "null" or "handler"
    _favGetter,       \* "null" or "predicate"
    heap,             \* marker handle -> marker object, for the handles in _markers; the
                      \* fields of a marker that left _markers are not read again
    layers,           \* the handles in _layerGroup._layers
    nextHandle,       \* the handle the next L.marker() call returns
    fadeInTimers,     \* handles with a pending 10 ms fadeIn timer
    exitTimers,       \* handle -> key of its photo, for the pending 300 ms removal timers
    west,             \* the viewport: longitude at the left edge of the container
    last,             \* history: the operation that produced this state
    stale             \* history: handles whose timers were pending when stop() last ran

\* the cloud-data module (src/js/Leaflet.Photo.js), Firestore and localStorage
VARIABLES
    _db,              \* "null" or "db": the Firestore instance _getDb() caches
    _favorites,       \* Null or the cached array of photo ids
    _photoEdits,      \* Null or the cached edits: photo id -> [tags, caption]
    favoritesDoc,     \* Firestore favorites/{uid}: Missing or its photos array
    photoEditsDoc,    \* Firestore photoEdits/all: photo id -> [tags, caption]
    pendingWrites,    \* localStorage photomap_pending_writes: the queued operations
    localFavorites,   \* localStorage photomap_favorites: Missing or its keys
    migratedBackup,   \* localStorage photomap_favorites_migrated: Missing or the keys
    requests,         \* Firestore writes of toggleFavorite/savePhoto* awaiting their response
    replay,           \* run -> the position and locals of a _replayPendingWrites() call
    migration,        \* the position and locals of a migrateFavorites() call
    userFavorite,     \* history: photo id -> the status the user's last toggle gave it, and
                      \* whether each of its toggles reached the write
    lastSaved,        \* history: photo id -> the values of the user's last saves
    unreplayed,       \* history: operation -> the entries queued for it minus the
                      \* entries a replay has written
    event             \* history: the cloud-data or auth step that produced this state

cloud == <<_db, _favorites, _photoEdits, favoritesDoc, photoEditsDoc, pendingWrites,
           localFavorites, migratedBackup, requests, replay, migration, userFavorite,
           lastSaved, unreplayed>>

\* firebase-init.js and the authentication module (src/js/auth.js)
VARIABLES
    firebaseApp,      \* window.firebaseApp: its state and the authorizedEditors it read
    _currentUser,     \* NoUser or the signed-in user
    _isEditor,
    _callbacks,       \* the listeners registered through onAuthChange()
    authListener,     \* Null or the editors list the onAuthStateChanged observer closed over
    delivered,        \* history: listener -> the details it has been called with
    resolved          \* history: the onAuthStateChanged observer has been called

auth == <<firebaseApp, _currentUser, _isEditor, _callbacks, authListener, delivered,
          resolved>>

\* ForceLayout (src/unnamed/part_007), the animation frames it has requested
\* and the markers it moves
VARIABLES
    _nodes,           \* the markers of the layout under way (the markers of the _nodes array)
    _timer,           \* NoFrame or the id requestAnimationFrame() last returned
    _iteration,
    _lineGroup,       \* "null" or "group": the anchor lines on the map
    frames,           \* the frames requested and neither run nor cancelled:
                      \* [id, run, started, since], the last two being the lastTime of
                      \* the tick closure: whether it is set, and the ms it lies back
    position,         \* marker -> "gps" (its original position) or "moved"
    generation,       \* history: the number of run() calls so far
    steps             \* history: the simulation steps since the last run() call

layout == <<_nodes, _timer, _iteration, _lineGroup, frames, position, generation, steps>>

sampler == <<_map, _photos, hostPhotos, _markers, _layerGroup, _iconSize, _cellSize,
             _onClickHandler, _favGetter, heap, layers, nextHandle, fadeInTimers, exitTimers,
             west, last, stale, viewport>>

\* what no sampler operation touches
beyondSampler == <<cloud, auth, event, layout>>

vars == <<sampler, cloud, auth, event, layout>>

config == <<_map, _iconSize, _cellSize, _onClickHandler, _favGetter>>

\* marker._icon of a marker that is not on the map
NoElement == [present |-> FALSE, width |-> 0, badge |-> <<>>]

\* last after an operation; a timer callback also records the key of its marker
\* (removal timers only) and whether it was pending when stop() last ran
Did(op) == [op |-> op, key |-> <<>>, stale |-> FALSE]

\* the operations that run an update pass
PassOps == {"init", "update", "setCellSize"}

SamplerInit ==
    /\ _map = "null"
    /\ _photos = <<>>
    /\ hostPhotos = <<>>
    /\ _markers = <<>>
    /\ _layerGroup = "null"
    /\ _iconSize = DefaultIconSize
    /\ _cellSize = DefaultCellSize
    /\ _onClickHandler = "null"
    /\ _favGetter = "null"
    /\ heap = <<>>
    /\ layers = {}
    /\ nextHandle = 1
    /\ fadeInTimers = {}
    /\ exitTimers = <<>>
    /\ west = 0
    /\ last = Did("idle")
    /\ stale = {}
    /\ viewport = "ready"

(* ---------------------------------------------------------------------- *)
(* Cloud data: values                                                     *)
(* ---------------------------------------------------------------------- *)
\* photo ids (file stems) and the uid of the signed-in user; a caller that is
\* signed out passes no uid
PhotoIds == {"a", "b"}
Uid == "u"
NoUid == "undefined"

\* _favorites before the first load or toggle
Null == <<"null">>

\* a field that is not set; tags and captions are sequences, '' and [] are <<>>
Undefined == <<"undefined">>

\* an entry of _photoEdits or of photoEdits/all without tags and caption
NoEdit == [tags |-> Undefined, caption |-> Undefined]

\* no entry for any photo: an empty document, and a cache that is null or {}
\* (every reader of the cache treats the two alike)
NoEdits == [id \in PhotoIds |-> NoEdit]

\* a _replayPendingWrites() call that is not running.
\* favs is the array the call holds; aliased says that it is the array
\* _favorites currently refers to, and then its contents are _favorites'.
\* failed (the positions whose write was rejected) and appended (the operations
\* queued since the call read the queue and not written since) are history
NotRunning ==
    [pc |-> "idle", queue |-> <<>>, i |-> 0, remaining |-> <<>>, favs |-> <<>>,
     aliased |-> FALSE, payload |-> <<>>, clean |-> TRUE, failed |-> {},
     appended |-> <<>>]

\* a migrateFavorites() call that is not running
NotMigrating ==
    [pc |-> "idle", raw |-> <<>>, validIds |-> {}, migratedIds |-> <<>>, favs |-> <<>>,
     aliased |-> FALSE, payload |-> <<>>]

\* the two triggers of _replayPendingWrites(): the online event and the timer
\* the firebase-ready event starts
Runs == {"online", "timer"}

\* window.firebaseApp before firebase-init.js has finished
AppUnset == [state |-> "unset", authorizedEditors |-> <<>>]

\* _currentUser while nobody is signed in: null
NoUser == [uid |-> "", email |-> ""]

\* the cloud-data module on a page load, over the documents and keys it finds
CloudInit(doc, edits, keys) ==
    /\ _db = "null"
    /\ _favorites = Null
    /\ _photoEdits = NoEdits
    /\ favoritesDoc = doc
    /\ photoEditsDoc = edits
    /\ pendingWrites = <<>>
    /\ localFavorites = keys
    /\ migratedBackup = <<>>
    /\ requests = {}
    /\ replay = [r \in Runs |-> NotRunning]
    /\ migration = NotMigrating
    /\ userFavorite = <<>>
    /\ lastSaved = NoEdits
    /\ unreplayed = <<>>
    /\ event = [op |-> "load"]

\* auth.js on a page load
AuthInit ==
    /\ firebaseApp = AppUnset
    /\ _currentUser = NoUser
    /\ _isEditor = FALSE
    /\ _callbacks = <<>>
    /\ authListener = Null
    /\ delivered = <<>>
    /\ resolved = FALSE

\* _timer = null
NoFrame == 0

\* the markers of the cluster group ForceLayout is run on
Pins == {"p", "q"}

\* ForceLayout on a page load; every marker stands at its GPS position
LayoutInit ==
    /\ _nodes = {}
    /\ _timer = NoFrame
    /\ _iteration = 0
    /\ _lineGroup = "null"
    /\ frames = {}
    /\ position = [m \in Pins |-> "gps"]
    /\ generation = 0
    /\ steps = 0

Init == SamplerInit /\ CloudInit(<<>>, NoEdits, <<>>) /\ AuthInit /\ LayoutInit

(* ---------------------------------------------------------------------- *)
(* The rendering collaborator                                             *)
(* ---------------------------------------------------------------------- *)
\* '+'
Plus == 43

\* '+' + hiddenCount
BadgeText(hiddenCount) == <<Plus>> \o NumToStr(hiddenCount)

\* parseInt(digits, 10) || 0
RECURSIVE ParseDigits(_, _, _)
ParseDigits(s, i, acc) ==
    IF i > Len(s) \/ s[i] < 48 \/ s[i] > 57 THEN acc
    ELSE ParseDigits(s, i + 1, 10 * acc + (s[i] - 48))

\* parseInt(text.replace('+', ''), 10) || 0
ParseBadge(text) ==
    LET IsPlus(i) == text[i] = Plus
        first == IF \E i \in DOMAIN text : IsPlus(i)
                 THEN CHOOSE i \in DOMAIN text : IsPlus(i) /\ \A j \in 1..(i - 1) : ~IsPlus(j)
                 ELSE 0
        stripped == IF first = 0 THEN text
                    ELSE SubSeq(text, 1, first - 1) \o SubSeq(text, first + 1, Len(text))
    IN ParseDigits(stripped, 1, 0)

\* L.Photo.Icon.createIcon: a div of the configured size holding the thumbnail;
\* options.hiddenCount is not read, so the element carries no count badge
createIcon(options) == [present |-> TRUE, width |-> options.iconSize, badge |-> <<>>]

\* the marker createMarker() returns, with the element it builds from its icon
\* when addLayer() puts it on the map
createMarker(photo, hiddenCount, iconSize, onClick) ==
    [photo |-> photo,
     iconSize |-> iconSize,
     click |-> onClick /= "null",
     el |-> createIcon([iconSize |-> iconSize, hiddenCount |-> hiddenCount])]

\* updateBadge(iconEl, hiddenCount)
updateBadge(el, hiddenCount) ==
    IF hiddenCount > 0 THEN [el EXCEPT !.badge = BadgeText(hiddenCount)]
    ELSE [el EXCEPT !.badge = <<>>]

\* marker.setIcon(new L.Photo.Icon({iconSize: [size, size], ..., hiddenCount: n}))
setIcon(marker, size, hiddenCount) ==
    [marker EXCEPT !.iconSize = size,
                   !.el = IF marker.el.present
                          THEN createIcon([iconSize |-> size, hiddenCount |-> hiddenCount])
                          ELSE marker.el]

\* the hidden-count a marker displays: 0 without a badge
DisplayedCount(marker) == IF marker.el.badge = <<>> THEN 0 ELSE ParseBadge(marker.el.badge)

(* ---------------------------------------------------------------------- *)
(* update(): diff                                                         *)
(* ---------------------------------------------------------------------- *)
\* a diff that removes nothing
ToRemoveNothing(markers, next) == {}

\* keys of _markers that are not in nextMarkers
ToRemove(markers, next) == {k \in DOMAIN markers : k \notin DOMAIN next}

\* a diff that retains nothing
ToKeepNothing(markers, next) == {}

\* keys of _markers that are in nextMarkers
ToKeep(markers, next) == {k \in DOMAIN markers : k \in DOMAIN next}

\* the keys update() creates markers for, in creation order
NewKeys(order, toKeep) ==
    LET IsNew(k) == k \notin toKeep
    IN SelectSeq(order, IsNew)

\* a removal without exit transition
FadingNone(removed, objects) == {}

\* the markers fadeOutAndRemove() starts a removal timer for: those with an element
Fading(removed, objects) == {h \in removed : objects[h].el.present}

\* a diff that forgets delete _markers[rmKey]
TrackedAfterKeepsRemoved(markers, toRemove, newKeys, handleOf) ==
    [k \in DOMAIN markers \cup Range(newKeys) |->
        IF k \in Range(newKeys) THEN handleOf[k] ELSE markers[k]]

\* _markers after delete _markers[rmKey] for the removed keys and
\* _markers[nk] = m for the new ones
TrackedAfter(markers, toRemove, newKeys, handleOf) ==
    [k \in (DOMAIN markers \ toRemove) \cup Range(newKeys) |->
        IF k \in Range(newKeys) THEN handleOf[k] ELSE markers[k]]

\* the handles in _markers
Tracked(markers) == {markers[k] : k \in DOMAIN markers}

\* createMarker() throws for no key of the pass
NoThrow == 0

\* the keys the creation loop gets through when createMarker() throws for the
\* key at position throwsAt: the exception leaves the loop and update()
CreatedBeforeThrow(wanted, throwsAt) ==
    IF throwsAt = NoThrow THEN wanted
    ELSE [i \in {j \in DOMAIN wanted : j < throwsAt} |-> wanted[i]]

\* a pass that sorts the collection itself
PhotosSortedInPlace(photos) == SortBucket(photos)

\* the array _photos refers to after the pass: its elements are read into
\* visible, and only the bucket arrays built from visible are sorted
PhotosAfterPass(photos) == photos

\* the body of update() once the guard has passed, createMarker() throwing for
\* the key at position throwsAt of the new keys; \E x \in {e} names the value e
Pass(op, photos, cellSize, iconSize, onClick, throwsAt) ==
    \E next \in {NextMarkers(photos, west, cellSize)},
       order \in {NextMarkerKeys(photos, west, cellSize)} :
    \E toRemove \in {ToRemove(_markers, next)}, toKeep \in {ToKeep(_markers, next)} :
    \E wanted \in {NewKeys(order, toKeep)} :
    \E newKeys \in {CreatedBeforeThrow(wanted, throwsAt)} :
    \E handleOf \in {[k \in Range(newKeys) |->
                        nextHandle - 1 + CHOOSE i \in DOMAIN newKeys : newKeys[i] = k]} :
    \E created \in {{handleOf[k] : k \in Range(newKeys)}},
       removed \in {{_markers[k] : k \in toRemove}},
       kept \in {{_markers[k] : k \in toKeep}} :
    \E fading \in {Fading(removed, heap)} :
    \E dropped \in {removed \ fading},
       newMarkers \in {TrackedAfter(_markers, toRemove, newKeys, handleOf)} :
    \E newLayers \in {(layers \ dropped) \cup created},
       newFadeIns \in {fadeInTimers \cup created},
       newExits \in {[h \in DOMAIN exitTimers \cup fading |->
                         IF h \in fading THEN photoKey(heap[h].photo) ELSE exitTimers[h]]} :
    \E object \in {[h \in DOMAIN heap \cup created |->
                      IF h \in created
                      THEN LET k == CHOOSE q \in Range(newKeys) : handleOf[q] = h
                           IN createMarker(next[k].photo, next[k].hiddenCount,
                                           iconSize, onClick)
                      ELSE IF h \in kept /\ heap[h].el.present
                      THEN LET k == CHOOSE q \in toKeep : _markers[q] = h
                           IN [heap[h] EXCEPT !.el = updateBadge(@, next[k].hiddenCount)]
                      ELSE heap[h]]} :
       /\ throwsAt <= Len(wanted)
       /\ nextHandle + Len(newKeys) - 1 <= MaxMarkers
       /\ _markers' = newMarkers
       /\ layers' = newLayers
       /\ fadeInTimers' = newFadeIns
       /\ exitTimers' = newExits
       /\ nextHandle' = nextHandle + Len(newKeys)
       /\ heap' = [h \in Tracked(newMarkers) |-> object[h]]
       /\ last' = Did(op)
       /\ hostPhotos' = PhotosAfterPass(photos)
       /\ UNCHANGED stale

\* the body of update() when the rendering collaborator works
UpdatePass(op, photos, cellSize, iconSize, onClick) ==
    Pass(op, photos, cellSize, iconSize, onClick, NoThrow)

(* ---------------------------------------------------------------------- *)
(* Inputs                                                                 *)
(* ---------------------------------------------------------------------- *)
\* sizes the host passes to updateIconSize() and setCellSize()
IconSizes == {60, DefaultIconSize}
CellSizes == {50, DefaultCellSize}

\* an absent option reads as undefined, which is falsy like 0
Absent == 0

\* the opts objects init() receives: none (every option absent) or all four set
Options ==
    {[iconSize |-> Absent, cellSize |-> Absent, onClick |-> "null", isFavorite |-> "null"],
     [iconSize |-> 60, cellSize |-> 50, onClick |-> "handler", isFavorite |-> "predicate"]}

\* a || b on numbers
OrElse(a, b) == IF a /= Absent THEN a ELSE b

\* the favorite predicate the host configures: membership in its favorite store
isFavorite(getter, p) == getter = "predicate" /\ p \in CloudFavorites

(* ---------------------------------------------------------------------- *)
(* Operations                                                             *)
(* ---------------------------------------------------------------------- *)
\* a guard that forgets the layer group
UninitializedWithoutMap(map, group) == map = "null"

\* a guard that never returns early
NeverUninitialized(map, group) == FALSE

\* if (!_map || !_layerGroup) return;
Uninitialized(map, group) == map = "null" \/ group = "null"

\* init(map, photos, opts)
InitSampler(photos, opts) ==
    /\ _map' = "map"
    /\ _photos' = photos
    /\ _iconSize' = OrElse(opts.iconSize, _iconSize)
    /\ _cellSize' = OrElse(opts.cellSize, _cellSize)
    /\ _onClickHandler' = opts.onClick
    /\ _favGetter' = opts.isFavorite
    /\ _layerGroup' = "group"
    /\ UpdatePass("init", photos, OrElse(opts.cellSize, _cellSize),
                  OrElse(opts.iconSize, _iconSize), opts.onClick)
    /\ UNCHANGED <<west, viewport>>
    /\ UNCHANGED beyondSampler

\* a teardown that leaves the group's markers in place
clearLayersKeeps(onLayer) == onLayer

\* _layerGroup.clearLayers(): the handles left in the group
clearLayers(onLayer) == {}

\* stop()
Stop ==
    /\ _layerGroup' = "null"
    /\ _markers' = <<>>
    /\ _photos' = <<>>
    /\ layers' = IF _layerGroup /= "null" /\ _map /= "null" THEN clearLayers(layers)
                 ELSE layers
    /\ heap' = <<>>
    /\ last' = Did("stop")
    /\ stale' = fadeInTimers \cup DOMAIN exitTimers
    /\ UNCHANGED <<config, hostPhotos, nextHandle, fadeInTimers, exitTimers, west, viewport>>
    /\ UNCHANGED beyondSampler

\* a setPhotos() that recomputes at once
SetPhotosAndUpdate(photos) ==
    /\ _photos' = photos
    /\ IF Uninitialized(_map, _layerGroup)
       THEN /\ last' = Did("idle")
            /\ UNCHANGED <<_markers, heap, layers, nextHandle, fadeInTimers, exitTimers,
                           stale>>
            /\ hostPhotos' = photos
       ELSE UpdatePass("update", photos, _cellSize, _iconSize, _onClickHandler)
    /\ UNCHANGED <<config, _layerGroup, west, viewport>>
    /\ UNCHANGED beyondSampler

\* setPhotos(photos)
SetPhotos(photos) ==
    /\ _photos' = photos
    /\ hostPhotos' = photos
    /\ last' = Did("idle")
    /\ UNCHANGED <<config, _markers, _layerGroup, heap, layers, nextHandle, fadeInTimers,
                   exitTimers, west, viewport, stale>>
    /\ UNCHANGED beyondSampler

\* update()
Update ==
    /\ IF Uninitialized(_map, _layerGroup)
       THEN /\ last' = Did("updateSkipped")
            /\ UNCHANGED <<hostPhotos, _markers, heap, layers, nextHandle, fadeInTimers,
                           exitTimers, stale>>
       ELSE UpdatePass("update", _photos, _cellSize, _iconSize, _onClickHandler)
    /\ UNCHANGED <<config, _photos, _layerGroup, west, viewport>>
    /\ UNCHANGED beyondSampler

\* update() in which the rendering collaborator throws inside createMarker()
\* for the new key at position throwsAt
UpdateThrows(throwsAt) ==
    /\ ~Uninitialized(_map, _layerGroup)
    /\ throwsAt /= NoThrow
    /\ Pass("updateThrew", _photos, _cellSize, _iconSize, _onClickHandler, throwsAt)
    /\ UNCHANGED <<config, _photos, _layerGroup, west, viewport>>
    /\ UNCHANGED beyondSampler

\* setCellSize(size)
SetCellSize(size) ==
    /\ _cellSize' = size
    /\ IF Uninitialized(_map, _layerGroup)
       THEN /\ last' = Did("setCellSizeSkipped")
            /\ UNCHANGED <<hostPhotos, _markers, heap, layers, nextHandle, fadeInTimers,
                           exitTimers, stale>>
       ELSE UpdatePass("setCellSize", _photos, size, _iconSize, _onClickHandler)
    /\ UNCHANGED <<_map, _iconSize, _onClickHandler, _favGetter, _photos, _layerGroup, west,
                   viewport>>
    /\ UNCHANGED beyondSampler

\* updateIconSize(size)
UpdateIconSize(size) ==
    LET tracked == Tracked(_markers)
    IN /\ _iconSize' = size
       /\ heap' = [h \in DOMAIN heap |->
                      IF h \in tracked
                      THEN setIcon(heap[h], size, DisplayedCount(heap[h]))
                      ELSE heap[h]]
       /\ last' = Did("idle")
       /\ UNCHANGED <<_map, _cellSize, _onClickHandler, _favGetter, _photos, hostPhotos,
                      _markers,
                      _layerGroup, layers, nextHandle, fadeInTimers, exitTimers, west,
                      viewport,
                      stale>>
       /\ UNCHANGED beyondSampler

\* getBounds() without a result
NoBounds == [empty |-> TRUE]

\* L.LatLngBounds.extend(latlng): the first point makes a box of that point,
\* every further point widens it
extend(bounds, p) ==
    IF bounds.empty
    THEN [empty |-> FALSE, south |-> p.lat, north |-> p.lat, west |-> p.lng, east |-> p.lng]
    ELSE [empty |-> FALSE,
          south |-> IF p.lat < bounds.south THEN p.lat ELSE bounds.south,
          north |-> IF p.lat > bounds.north THEN p.lat ELSE bounds.north,
          west |-> IF p.lng < bounds.west THEN p.lng ELSE bounds.west,
          east |-> IF p.lng > bounds.east THEN p.lng ELSE bounds.east]

\* L.featureGroup().getBounds(): the box extended by the position of each
\* layer of the group, given as the photos the layers stand at
RECURSIVE GroupBounds(_)
GroupBounds(group) ==
    IF group = {} THEN NoBounds
    ELSE LET p == CHOOSE q \in group : TRUE
         IN extend(GroupBounds(group \ {p}), p)

\* the markers that have started an exit transition and are still on the layer
Exiting == DOMAIN exitTimers \cap layers

\* the photo an exiting marker stands at: the one its key was built from
ExitingPhoto(h) == CHOOSE p \in Catalog : photoKey(p) = exitTimers[h]

\* the photos of the markers in _markers
ActivePhotos == {heap[h].photo : h \in Tracked(_markers)}

\* a getBounds() that measures the render layer, exiting markers included
getBoundsOfLayer ==
    IF layers = {} THEN NoBounds
    ELSE GroupBounds(ActivePhotos \cup {ExitingPhoto(h) : h \in Exiting})

\* getBounds()
getBounds == IF DOMAIN _markers = {} THEN NoBounds ELSE GroupBounds(ActivePhotos)

\* LatLngBounds.contains(latlng)
Covers(bounds, p) ==
    /\ ~bounds.empty
    /\ bounds.south <= p.lat /\ p.lat <= bounds.north
    /\ bounds.west <= p.lng /\ p.lng <= bounds.east

\* the user pans the map
Pan(w) ==
    /\ w /= west
    /\ west' = w
    /\ last' = Did("idle")
    /\ UNCHANGED <<config, _photos, hostPhotos, _markers, _layerGroup, heap, layers,
                   nextHandle,
                   fadeInTimers, exitTimers, stale, viewport>>
    /\ UNCHANGED beyondSampler

\* the container is laid out, collapses or loses its bounds
Resize(v) ==
    /\ v /= viewport
    /\ viewport' = v
    /\ last' = Did("idle")
    /\ UNCHANGED <<config, _photos, hostPhotos, _markers, _layerGroup, heap, layers,
                   nextHandle,
                   fadeInTimers, exitTimers, stale, west>>
    /\ UNCHANGED beyondSampler

(* ---------------------------------------------------------------------- *)
(* Timer callbacks                                                        *)
(* ---------------------------------------------------------------------- *)
\* the 10 ms callback of fadeIn(marker): it only toggles the fade-in class of
\* the marker's element, if the marker still has one
FadeInTimer(h) ==
    /\ h \in fadeInTimers
    /\ fadeInTimers' = fadeInTimers \ {h}
    /\ last' = [op |-> "fadeInTimer", key |-> <<>>, stale |-> h \in stale]
    /\ stale' = stale \cap ((fadeInTimers \ {h}) \cup DOMAIN exitTimers)
    /\ UNCHANGED <<config, _photos, hostPhotos, _markers, _layerGroup, heap, layers,
                   nextHandle,
                   exitTimers, west, viewport>>
    /\ UNCHANGED beyondSampler

\* a removal keyed to the photo key: it also detaches the marker tracked under
\* the key of the marker whose timer fired
RemoveFromGroupByKey(group, onLayer, h) ==
    IF group /= "null"
    THEN onLayer \ ({h} \cup {_markers[k] : k \in DOMAIN _markers \cap {exitTimers[h]}})
    ELSE onLayer

\* a callback that leaves the marker on the layer
RemoveFromGroupNever(group, onLayer, h) == onLayer

\* if (_layerGroup) _layerGroup.removeLayer(marker): the handles left in the group
RemoveFromGroup(group, onLayer, h) == IF group /= "null" THEN onLayer \ {h} ELSE onLayer

\* the 300 ms callback of fadeOutAndRemove(marker)
ExitTimer(h) ==
    /\ h \in DOMAIN exitTimers
    /\ exitTimers' = [g \in DOMAIN exitTimers \ {h} |-> exitTimers[g]]
    /\ layers' = RemoveFromGroup(_layerGroup, layers, h)
    /\ heap' = [g \in DOMAIN heap |->
                   IF g \notin RemoveFromGroup(_layerGroup, layers, h)
                   THEN [heap[g] EXCEPT !.el = NoElement] ELSE heap[g]]
    /\ last' = [op |-> "exitTimer", key |-> exitTimers[h], stale |-> h \in stale]
    /\ stale' = stale \cap (fadeInTimers \cup (DOMAIN exitTimers \ {h}))
    /\ UNCHANGED <<config, _photos, hostPhotos, _markers, _layerGroup, nextHandle,
                   fadeInTimers, west, viewport>>
    /\ UNCHANGED beyondSampler

(* ---------------------------------------------------------------------- *)
(* firebase-init.js                                                       *)
(* ---------------------------------------------------------------------- *)
\* the lists config/app may hold; the read of it may also fail
EditorLists == {<<>>, <<"ann@x">>}

\* initFirebase(): window.firebaseApp is set once the read of config/app has
\* returned or failed, with the list it read, and firebase-ready is dispatched;
\* when initializeApp throws, window.firebaseApp is null
InitFirebase(works, editors) ==
    /\ firebaseApp.state = "unset"
    /\ firebaseApp' = IF works THEN [state |-> "ready", authorizedEditors |-> editors]
                      ELSE [state |-> "null", authorizedEditors |-> <<>>]
    /\ event' = [op |-> "initFirebase"]
    /\ UNCHANGED <<sampler, layout, cloud, _currentUser, _isEditor, _callbacks, authListener,
                   delivered, resolved>>

(* ---------------------------------------------------------------------- *)
(* auth.js                                                                *)
(* ---------------------------------------------------------------------- *)
\* the users Firebase may report: a listed editor, a user the list does not
\* name, a user whose account has no email; and nobody
Users ==
    {[uid |-> "u1", email |-> "ann@x"], [uid |-> "u2", email |-> "bob@x"],
     [uid |-> "u3", email |-> ""]}

\* the listeners the host registers: one returns, one throws
Listeners == {[id |-> "panel", throws |-> FALSE], [id |-> "badge", throws |-> TRUE]}

\* !!(user && user.email && editors.indexOf(user.email) !== -1)
IsEditor(user, editors) ==
    user /= NoUser /\ user.email /= "" /\ \E i \in DOMAIN editors : editors[i] = user.email

\* a notification loop that an exception of a listener ends
NotifiedUntilThrow(callbacks, detail) ==
    [i \in {j \in DOMAIN callbacks : \A k \in 1..(j - 1) : ~callbacks[k].throws} |->
        [listener |-> callbacks[i].id, user |-> detail.user, isEditor |-> detail.isEditor]]

\* _notifyListeners(): the calls of _callbacks.forEach, each inside try/catch
Notified(callbacks, detail) ==
    [i \in DOMAIN callbacks |->
        [listener |-> callbacks[i].id, user |-> detail.user, isEditor |-> detail.isEditor]]

\* _initAuth(), run when auth.js loads or on firebase-ready: without
\* window.firebaseApp it returns, otherwise the observer it registers closes
\* over the editors list
InitAuth ==
    /\ firebaseApp.state = "ready"
    /\ authListener = Null
    /\ authListener' = firebaseApp.authorizedEditors
    /\ event' = [op |-> "initAuth"]
    /\ UNCHANGED <<sampler, layout, cloud, firebaseApp, _currentUser, _isEditor, _callbacks,
                   delivered, resolved>>

\* the observer passed to onAuthStateChanged() is called with the user, or
\* with null after a sign-out
AuthStateChanged(user) ==
    /\ authListener /= Null
    /\ _currentUser' = user
    /\ _isEditor' = IsEditor(user, authListener)
    /\ delivered' = Notified(_callbacks,
                             [user |-> user, isEditor |-> IsEditor(user, authListener)])
    /\ resolved' = TRUE
    /\ event' = [op |-> "authStateChanged"]
    /\ UNCHANGED <<sampler, layout, cloud, firebaseApp, _callbacks, authListener>>

\* onAuthChange(callback): _currentUser is null or a user, never undefined, so
\* the callback is called at once with the current state
OnAuthChange(callback) ==
    /\ Len(_callbacks) < MaxListeners
    /\ _callbacks' = Append(_callbacks, callback)
    /\ delivered' = <<[listener |-> callback.id, user |-> _currentUser,
                       isEditor |-> _isEditor]>>
    /\ event' = [op |-> "onAuthChange"]
    /\ UNCHANGED <<sampler, layout, cloud, firebaseApp, _currentUser, _isEditor, authListener,
                   resolved>>

(* ---------------------------------------------------------------------- *)
(* Cloud data: favorites and the write queue                              *)
(* ---------------------------------------------------------------------- *)
\* _getDb(): the instance it returns and caches once window.firebaseApp has one
getDb == IF _db = "null" /\ firebaseApp.state = "ready" THEN "db" ELSE _db

\* arr.indexOf(x) !== -1
Includes(arr, x) == \E i \in DOMAIN arr : arr[i] = x

\* arr.splice(arr.indexOf(x), 1)
Without(arr, x) ==
    LET idx == CHOOSE i \in DOMAIN arr : arr[i] = x /\ \A j \in 1..(i - 1) : arr[j] /= x
    IN [k \in 1..(Len(arr) - 1) |-> IF k < idx THEN arr[k] ELSE arr[k + 1]]

\* the toggle of toggleFavorite() and of the replay: push the id or splice it
Toggled(arr, photoId) ==
    IF Includes(arr, photoId) THEN Without(arr, photoId) ELSE Append(arr, photoId)

\* a queued operation; the timestamp it carries is never read
Op(type, uid, photoId, value) ==
    [type |-> type, uid |-> uid, photoId |-> photoId, value |-> value]

\* _queuePendingWrite(op): the queue it stores
QueuedWith(queue, op) == Append(queue, op)

\* the count of the entries of op that are queued and not replayed, after one
\* more was queued (n = 1) or a replay has written one (n = -1); an operation
\* whose count is 0 has no entry
Counted(history, op, n) ==
    LET Of(o) == (IF o \in DOMAIN history THEN history[o] ELSE 0) + (IF o = op THEN n ELSE 0)
    IN [o \in {q \in DOMAIN history \cup {op} : Of(q) /= 0} |-> Of(o)]

\* the largest count of entries queued and not replayed
Backlog ==
    IF DOMAIN unreplayed = {} THEN 0
    ELSE CHOOSE n \in {unreplayed[o] : o \in DOMAIN unreplayed} :
             \A o \in DOMAIN unreplayed : unreplayed[o] <= n

\* a replay under way after op was queued behind its back
Heard(call, op) ==
    IF call.pc /= "idle" THEN [call EXCEPT !.appended = Append(@, op)] ELSE call

\* a replay under way after another replay has written op
Settled(call, op) ==
    IF Includes(call.appended, op) THEN [call EXCEPT !.appended = Without(@, op)] ELSE call

\* a call that holds the array _favorites refers to keeps it, with its contents,
\* when _favorites is bound to another array
Detached(call) ==
    IF call.aliased THEN [call EXCEPT !.aliased = FALSE, !.favs = _favorites] ELSE call

\* the status the user's toggle has given a photo, and whether every toggle of
\* the photo so far went on to the write
Noted(history, photoId, favs, sent) ==
    [id \in DOMAIN history \cup {photoId} |->
        IF id = photoId
        THEN [favorite |-> Includes(favs, photoId),
              sent |-> sent /\ (photoId \in DOMAIN history => history[photoId].sent)]
        ELSE history[id]]

\* toggleFavorite(uid, photoId) up to its await: the cache is updated in place
\* and, with a connection and a uid, the whole array is sent to favorites/{uid}
ToggleFavorite(uid, photoId) ==
    \E favs \in {Toggled(IF _favorites = Null THEN <<>> ELSE _favorites, photoId)} :
    \E sent \in {getDb /= "null" /\ uid /= NoUid} :
    \E request \in {[kind |-> "setFavorites",
                     op |-> Op("toggleFavorite", uid, photoId, Undefined),
                     photos |-> favs]} :
       /\ sent => (request \notin requests /\ Cardinality(requests) < MaxRequests)
       /\ _favorites' = favs
       /\ _db' = getDb
       /\ requests' = IF sent THEN requests \cup {request} ELSE requests
       /\ userFavorite' = Noted(userFavorite, photoId, favs, sent)
       /\ event' = [op |-> "toggleFavorite", sent |-> sent]
       /\ UNCHANGED <<sampler, layout, auth, _photoEdits, favoritesDoc, photoEditsDoc,
                      pendingWrites, localFavorites, migratedBackup, replay, migration,
                      lastSaved, unreplayed>>

\* the document after updateDoc() of the field path photoId.field
EditWritten(edits, op) ==
    IF op.type = "savePhotoTags" THEN [edits EXCEPT ![op.photoId].tags = op.value]
    ELSE [edits EXCEPT ![op.photoId].caption = op.value]

\* the response to the write of a toggleFavorite() or savePhoto*() call: the
\* document is written, or the catch block queues the operation
WriteDone(request, ok) ==
    /\ request \in requests
    /\ request.kind \in {"setFavorites", "updatePhotoEdit"}
    /\ ~ok => Len(pendingWrites) < MaxQueue /\ Backlog < MaxQueue
    /\ requests' = requests \ {request}
    /\ favoritesDoc' = IF ok /\ request.kind = "setFavorites" THEN request.photos
                       ELSE favoritesDoc
    /\ photoEditsDoc' = IF ok /\ request.kind = "updatePhotoEdit"
                        THEN EditWritten(photoEditsDoc, request.op)
                        ELSE photoEditsDoc
    /\ pendingWrites' = IF ok THEN pendingWrites ELSE QueuedWith(pendingWrites, request.op)
    /\ replay' = IF ok THEN replay ELSE [q \in Runs |-> Heard(replay[q], request.op)]
    /\ unreplayed' = IF ok THEN unreplayed ELSE Counted(unreplayed, request.op, 1)
    /\ event' = [op |-> "writeDone", ok |-> ok]
    /\ UNCHANGED <<sampler, layout, auth, _db, _favorites, _photoEdits, localFavorites,
                   migratedBackup, migration, userFavorite, lastSaved>>

(* ---------------------------------------------------------------------- *)
(* Cloud data: photo edits                                                *)
(* ---------------------------------------------------------------------- *)
\* savePhotoTags(photoId, tags) / savePhotoCaption(photoId, caption) up to the
\* await: the cache is updated; without a connection _writePhotoEdit() throws
\* and the operation is queued at once, otherwise updateDoc() is under way
SavePhotoEdit(type, photoId, value) ==
    \E op \in {Op(type, NoUid, photoId, value)} :
    \E request \in {[kind |-> "updatePhotoEdit", op |-> op, photos |-> <<>>]} :
       /\ IF getDb = "null"
          THEN /\ Len(pendingWrites) < MaxQueue
               /\ pendingWrites' = QueuedWith(pendingWrites, op)
               /\ unreplayed' = Counted(unreplayed, op, 1)
               /\ UNCHANGED requests
          ELSE /\ request \notin requests
               /\ Cardinality(requests) < MaxRequests
               /\ requests' = requests \cup {request}
               /\ UNCHANGED <<pendingWrites, unreplayed>>
       /\ _photoEdits' = EditWritten(_photoEdits, op)
       /\ lastSaved' = EditWritten(lastSaved, op)
       /\ _db' = getDb
       /\ event' = [op |-> type, sent |-> getDb /= "null"]
       /\ UNCHANGED <<sampler, layout, auth, _favorites, favoritesDoc, photoEditsDoc,
                      localFavorites, migratedBackup, replay, migration, userFavorite>>

\* loadPhotoEdits() up to its await; without a connection it returns {} and
\* leaves the cache alone
LoadPhotoEdits ==
    \E request \in {[kind |-> "getPhotoEdits", op |-> Op("loadPhotoEdits", NoUid, "", Undefined),
                     photos |-> <<>>]} :
       /\ IF getDb = "null"
          THEN /\ event' = [op |-> "loadPhotoEdits", sent |-> FALSE]
               /\ UNCHANGED requests
          ELSE /\ request \notin requests
               /\ Cardinality(requests) < MaxRequests
               /\ requests' = requests \cup {request}
               /\ event' = [op |-> "loadPhotoEdits", sent |-> TRUE]
       /\ _db' = getDb
       /\ UNCHANGED <<sampler, layout, auth, _favorites, _photoEdits, favoritesDoc, photoEditsDoc,
                      pendingWrites, localFavorites, migratedBackup, replay, migration,
                      userFavorite, lastSaved, unreplayed>>

\* getDoc() of loadPhotoEdits() returns: the cache is the document, or {} when
\* the read failed
LoadPhotoEditsDone(ok) ==
    /\ \E request \in requests : request.kind = "getPhotoEdits"
    /\ requests' = {request \in requests : request.kind /= "getPhotoEdits"}
    /\ _photoEdits' = IF ok THEN photoEditsDoc ELSE NoEdits
    /\ event' = [op |-> "loadPhotoEditsDone", ok |-> ok]
    /\ UNCHANGED <<sampler, layout, auth, _db, _favorites, favoritesDoc, photoEditsDoc,
                   pendingWrites, localFavorites, migratedBackup, replay, migration,
                   userFavorite, lastSaved, unreplayed>>

SavePhotoTags(photoId, tags) == SavePhotoEdit("savePhotoTags", photoId, tags)

SavePhotoCaption(photoId, caption) == SavePhotoEdit("savePhotoCaption", photoId, caption)

\* manifestTags || [] and manifestCaption || '': an absent default reads as empty
OrEmpty(default) == IF default = Undefined THEN <<>> ELSE default

\* a getEffectiveCaption() that tests the cached caption for truthiness
getEffectiveCaptionTruthy(photoId, manifestCaption) ==
    IF _photoEdits[photoId].caption \notin {Undefined, <<>>}
    THEN _photoEdits[photoId].caption
    ELSE OrEmpty(manifestCaption)

\* getEffectiveTags(photoId, manifestTags)
getEffectiveTags(photoId, manifestTags) ==
    IF _photoEdits[photoId].tags /= Undefined THEN _photoEdits[photoId].tags
    ELSE OrEmpty(manifestTags)

\* getEffectiveCaption(photoId, manifestCaption)
getEffectiveCaption(photoId, manifestCaption) ==
    IF _photoEdits[photoId].caption /= Undefined THEN _photoEdits[photoId].caption
    ELSE OrEmpty(manifestCaption)

(* ---------------------------------------------------------------------- *)
(* Cloud data: migration of the localStorage favorites                    *)
(* ---------------------------------------------------------------------- *)
\* a manifest photo with url dir/stem.ext, and the localStorage favorites key
\* "dir/stem.ext|lat|lng" of a photo
Photo(dir, stem, ext) == [dir |-> dir, stem |-> stem, ext |-> ext]
Key(dir, stem, ext, lat) == [dir |-> dir, stem |-> stem, ext |-> ext, lat |-> lat]

\* getPhotoId(photo): the last path segment of photo.url without its extension
getPhotoId(photo) == photo.stem

\* the id migrateFavorites() derives from a key: the part before the first '|',
\* its last path segment, without the extension
KeyPhotoId(key) == getPhotoId(Photo(key.dir, key.stem, key.ext))

\* validIds: the ids of the manifest photos
ValidIds(manifestPhotos) == {getPhotoId(manifestPhotos[i]) : i \in DOMAIN manifestPhotos}

\* migratedIds after the first k keys: orphans are skipped when the manifest
\* lists any id at all, and an id is pushed once
RECURSIVE MigratedIds(_, _, _)
MigratedIds(keys, validIds, k) ==
    IF k = 0 THEN <<>>
    ELSE LET before == MigratedIds(keys, validIds, k - 1)
             photoId == KeyPhotoId(keys[k])
         IN IF validIds /= {} /\ photoId \notin validIds THEN before
            ELSE IF Includes(before, photoId) THEN before
            ELSE Append(before, photoId)

\* existing after the merge loop has seen the first m migrated ids
RECURSIVE Merged(_, _, _)
Merged(existing, migratedIds, m) ==
    IF m = 0 THEN existing
    ELSE LET before == Merged(existing, migratedIds, m - 1)
         IN IF Includes(before, migratedIds[m]) THEN before
            ELSE Append(before, migratedIds[m])

\* migrateFavorites(uid, manifestPhotos) up to its await: nothing to migrate,
\* no connection or no uid end the call at once
MigrateFavorites(uid, manifestPhotos) ==
    /\ migration.pc = "idle"
    /\ \E validIds \in {ValidIds(manifestPhotos)} :
       \E migratedIds \in {MigratedIds(localFavorites, validIds, Len(localFavorites))} :
          IF localFavorites = <<>> \/ migratedIds = <<>>
          THEN /\ event' = [op |-> "migrateSkipped"]
               /\ UNCHANGED <<migration, _db>>
          ELSE IF getDb = "null" \/ uid = NoUid
          THEN /\ event' = [op |-> "migrateOffline"]
               /\ _db' = getDb
               /\ UNCHANGED migration
          ELSE /\ event' = [op |-> "migrateStart"]
               /\ _db' = getDb
               /\ migration' = [NotMigrating EXCEPT !.pc = "load", !.raw = localFavorites,
                                                    !.validIds = validIds,
                                                    !.migratedIds = migratedIds]
    /\ UNCHANGED <<sampler, layout, auth, _favorites, _photoEdits, favoritesDoc, photoEditsDoc,
                   pendingWrites, localFavorites, migratedBackup, requests, replay,
                   userFavorite, lastSaved, unreplayed>>

\* loadFavorites(uid) returns inside migrateFavorites(): _favorites is a new
\* array, of the document's ids or empty when the read failed; the migrated
\* ids it lacks are pushed and the array is sent to favorites/{uid}
MigrateLoadDone(ok) ==
    /\ migration.pc = "load"
    /\ \E existing \in {Merged(IF ok THEN favoritesDoc ELSE <<>>, migration.migratedIds,
                                Len(migration.migratedIds))} :
          /\ _favorites' = existing
          /\ migration' = [migration EXCEPT !.pc = "write", !.aliased = TRUE,
                                            !.payload = existing]
          /\ replay' = [q \in Runs |-> Detached(replay[q])]
          /\ event' = [op |-> "migrateRead", ok |-> ok]
    /\ UNCHANGED <<sampler, layout, auth, _db, _photoEdits, favoritesDoc, photoEditsDoc,
                   pendingWrites, localFavorites, migratedBackup, requests, userFavorite,
                   lastSaved, unreplayed>>

\* setDoc() of migrateFavorites() returns: on success _favorites = existing,
\* the old key is backed up and removed; on failure the catch block logs
MigrateWriteDone(ok) ==
    /\ migration.pc = "write"
    /\ \E rebound \in {ok /\ ~migration.aliased} :
          /\ favoritesDoc' = IF ok THEN migration.payload ELSE favoritesDoc
          /\ _favorites' = IF rebound THEN migration.favs ELSE _favorites
          /\ replay' = [q \in Runs |-> IF rebound THEN Detached(replay[q]) ELSE replay[q]]
          /\ migratedBackup' = IF ok THEN migration.raw ELSE migratedBackup
          /\ localFavorites' = IF ok THEN <<>> ELSE localFavorites
          /\ migration' = NotMigrating
          /\ event' = [op |-> IF ok THEN "migrated" ELSE "migrateFailed",
                       previous |-> favoritesDoc,
                       raw |-> migration.raw,
                       validIds |-> migration.validIds]
    /\ UNCHANGED <<sampler, layout, auth, _db, _photoEdits, photoEditsDoc, pendingWrites,
                   requests,
                   userFavorite, lastSaved, unreplayed>>

(* ---------------------------------------------------------------------- *)
(* Cloud data: replay of the write queue                                  *)
(* ---------------------------------------------------------------------- *)
\* the run at the await of its operation i: a queued toggle first reads the
\* favorites, a queued edit is written at once
AtOp(run, i) ==
    [run EXCEPT !.i = i,
                !.pc = IF run.queue[i].type = "toggleFavorite" THEN "load" ELSE "edit",
                !.favs = <<>>, !.aliased = FALSE, !.payload = <<>>]

\* the run after operation i: at the next operation, or finished
Advanced(run, remaining, ok) ==
    IF run.i < Len(run.queue)
    THEN AtOp([run EXCEPT !.remaining = remaining, !.clean = run.clean /\ ok,
                          !.failed = IF ok THEN @ ELSE @ \cup {run.i}],
              run.i + 1)
    ELSE NotRunning

\* a replay that stores an empty queue once the loop is over
QueueCleared(run, remaining) == IF run.i < Len(run.queue) THEN pendingWrites ELSE <<>>

\* localStorage.setItem(PENDING_KEY, remaining) once the loop is over
QueueAfter(run, remaining) == IF run.i < Len(run.queue) THEN pendingWrites ELSE remaining

\* the step a response of run r amounts to
ReplayEvent(r, run, ok) ==
    IF run.i < Len(run.queue) THEN [op |-> "replayStep", run |-> r, clean |-> run.clean /\ ok]
    ELSE [op |-> "replayDone", run |-> r, clean |-> run.clean /\ ok,
          length |-> Len(run.queue)]

\* _replayPendingWrites() up to its first await
ReplayStart(r) ==
    /\ replay[r].pc = "idle"
    /\ IF pendingWrites = <<>>
       THEN /\ event' = [op |-> "replaySkipped", run |-> r, clean |-> TRUE]
            /\ UNCHANGED <<replay, _db>>
       ELSE IF getDb = "null"
       THEN /\ event' = [op |-> "replayOffline", run |-> r, clean |-> TRUE]
            /\ UNCHANGED <<replay, _db>>
       ELSE /\ event' = [op |-> "replayStart", run |-> r, clean |-> TRUE]
            /\ replay' = [replay EXCEPT
                             ![r] = AtOp([NotRunning EXCEPT !.queue = pendingWrites], 1)]
            /\ _db' = getDb
    /\ UNCHANGED <<sampler, layout, auth, _favorites, _photoEdits, favoritesDoc, photoEditsDoc,
                   pendingWrites, localFavorites, migratedBackup, requests, migration,
                   userFavorite, lastSaved, unreplayed>>

\* loadFavorites(op.uid) returns inside the replay of a queued toggle: _favorites
\* is a new array, of the document's ids or empty when the read failed; the
\* run toggles the id in that array and sends it to favorites/{uid}
ReplayLoadDone(r, ok) ==
    /\ replay[r].pc = "load"
    /\ \E run \in {replay[r]} :
       \E favs \in {Toggled(IF ok THEN favoritesDoc ELSE <<>>, run.queue[run.i].photoId)} :
          /\ _favorites' = favs
          /\ replay' = [q \in Runs |->
                           IF q = r
                           THEN [run EXCEPT !.pc = "write", !.aliased = TRUE,
                                            !.payload = favs, !.clean = run.clean /\ ok]
                           ELSE Detached(replay[q])]
          /\ migration' = Detached(migration)
          /\ event' = [op |-> "replayStep", run |-> r, clean |-> run.clean /\ ok]
    /\ UNCHANGED <<sampler, layout, auth, _db, _photoEdits, favoritesDoc, photoEditsDoc,
                   pendingWrites, localFavorites, migratedBackup, requests, userFavorite,
                   lastSaved, unreplayed>>

\* setDoc() of a replayed toggle returns: on success _favorites = favs, on
\* failure the operation stays in the queue; after the last operation the
\* queue is stored
ReplayWriteDone(r, ok) ==
    /\ replay[r].pc = "write"
    /\ \E run \in {replay[r]} :
       \E remaining \in {IF ok THEN run.remaining
                          ELSE Append(run.remaining, run.queue[run.i])} :
       \E rebound \in {ok /\ ~run.aliased} :
          /\ favoritesDoc' = IF ok THEN run.payload ELSE favoritesDoc
          /\ _favorites' = IF rebound THEN run.favs ELSE _favorites
          /\ replay' = [q \in Runs |->
                           IF q = r THEN Advanced(run, remaining, ok)
                           ELSE IF rebound THEN Settled(Detached(replay[q]), run.queue[run.i])
                           ELSE IF ok THEN Settled(replay[q], run.queue[run.i])
                           ELSE replay[q]]
          /\ migration' = IF rebound THEN Detached(migration) ELSE migration
          /\ pendingWrites' = QueueAfter(run, remaining)
          /\ unreplayed' = IF ok THEN Counted(unreplayed, run.queue[run.i], -1)
                            ELSE unreplayed
          /\ event' = ReplayEvent(r, run, ok)
    /\ UNCHANGED <<sampler, layout, auth, _db, _photoEdits, photoEditsDoc, localFavorites,
                   migratedBackup, requests, userFavorite, lastSaved>>

\* updateDoc() of a replayed savePhotoTags/savePhotoCaption returns
ReplayEditDone(r, ok) ==
    /\ replay[r].pc = "edit"
    /\ \E run \in {replay[r]} :
       \E remaining \in {IF ok THEN run.remaining
                          ELSE Append(run.remaining, run.queue[run.i])} :
          /\ photoEditsDoc' = IF ok THEN EditWritten(photoEditsDoc, run.queue[run.i])
                              ELSE photoEditsDoc
          /\ replay' = [q \in Runs |->
                           IF q = r THEN Advanced(run, remaining, ok)
                           ELSE IF ok THEN Settled(replay[q], run.queue[run.i])
                           ELSE replay[q]]
          /\ pendingWrites' = QueueAfter(run, remaining)
          /\ unreplayed' = IF ok THEN Counted(unreplayed, run.queue[run.i], -1)
                            ELSE unreplayed
          /\ event' = ReplayEvent(r, run, ok)
    /\ UNCHANGED <<sampler, layout, auth, _db, _favorites, _photoEdits, favoritesDoc,
                   localFavorites, migratedBackup, requests, migration, userFavorite,
                   lastSaved>>

(* ---------------------------------------------------------------------- *)
(* ForceLayout                                                            *)
(* ---------------------------------------------------------------------- *)
MAX_ITERATIONS == 60

\* 1000 / FPS_INTERVAL
FramesPerSecond == 30

\* markers.length < 2 || markers.length > 50
MinNodes == 2
MaxNodes == 50

\* the ms between two animation frames: a 60 Hz display, and a frame that
\* came late
FrameGaps == {16, 17, 34}

\* timestamp - lastTime < FPS_INTERVAL, on whole milliseconds
Throttled(elapsed) == elapsed * FramesPerSecond < 1000

\* a stop() that leaves the requested frame alone
CancelledNone(pending, timer) == pending

\* cancelAnimationFrame(_timer)
Cancelled(pending, timer) == {f \in pending : f.id /= timer}

\* the frames left after the first lines of stop()
AfterCancel == IF _timer /= NoFrame THEN Cancelled(frames, _timer) ELSE frames

\* the positions after the restore loop of stop()
Restored == [m \in Pins |-> IF m \in _nodes THEN "gps" ELSE position[m]]

\* requestAnimationFrame(tick): an id no requested frame has and _timer does
\* not hold
FrameId(pending) ==
    CHOOSE n \in 1..(Cardinality(pending) + 2) :
        /\ n /= _timer
        /\ \A f \in pending : f.id /= n
        /\ \A k \in 1..(n - 1) : k = _timer \/ \E f \in pending : f.id = k

\* stop()
LayoutStop ==
    /\ frames' = AfterCancel
    /\ _timer' = NoFrame
    /\ position' = Restored
    /\ _lineGroup' = "null"
    /\ _nodes' = {}
    /\ _iteration' = 0
    /\ UNCHANGED <<generation, steps>>
    /\ UNCHANGED <<sampler, cloud, auth, event>>

\* run(map, clusterGroup, iconSize): stop(), then a new loop over the markers
\* that have an icon and lie inside the bounds, unless the group is
\* spiderfied or these are fewer than 2 or more than 50
LayoutRun(spiderfied, visible) ==
    /\ generation < MaxRuns
    /\ generation' = generation + 1
    /\ steps' = 0
    /\ position' = Restored
    /\ _iteration' = 0
    /\ IF spiderfied \/ Cardinality(visible) < MinNodes \/ Cardinality(visible) > MaxNodes
       THEN /\ frames' = AfterCancel
            /\ _timer' = NoFrame
            /\ _lineGroup' = "null"
            /\ _nodes' = {}
       ELSE \E id \in {FrameId(AfterCancel)} :
            /\ frames' = AfterCancel \cup {[id |-> id, run |-> generation + 1,
                                             started |-> FALSE, since |-> 0]}
            /\ _timer' = id
            /\ _lineGroup' = "group"
            /\ _nodes' = visible
    /\ UNCHANGED <<sampler, cloud, auth, event>>

\* tick(timestamp), called for the requested frame f, gap ms after the frame
\* before it.  A tick that comes too early asks for the next frame; otherwise
\* it ends the loop at MAX_ITERATIONS, or makes one simulation step, which
\* leaves the markers of _nodes at the positions moved and ends the loop when
\* the total velocity is below 0.5
LayoutTick(f, gap, moved, settled) ==
    /\ f \in frames
    /\ DOMAIN moved = _nodes
    /\ \E elapsed \in {IF f.started THEN f.since + gap ELSE 0} :
       \E id \in {FrameId(frames \ {f})} :
          IF Throttled(elapsed)
          THEN /\ frames' = (frames \ {f}) \cup {[id |-> id, run |-> f.run,
                                                   started |-> TRUE, since |-> elapsed]}
               /\ _timer' = id
               /\ UNCHANGED <<_iteration, position, steps>>
          ELSE IF _iteration >= MAX_ITERATIONS
          THEN /\ frames' = frames \ {f}
               /\ _timer' = NoFrame
               /\ UNCHANGED <<_iteration, position, steps>>
          ELSE /\ _iteration' = _iteration + 1
               /\ steps' = steps + 1
               /\ position' = [m \in Pins |-> IF m \in _nodes THEN moved[m] ELSE position[m]]
               /\ IF settled
                  THEN /\ frames' = frames \ {f}
                       /\ _timer' = NoFrame
                  ELSE /\ frames' = (frames \ {f}) \cup {[id |-> id, run |-> f.run,
                                                           started |-> TRUE, since |-> 0]}
                       /\ _timer' = id
    /\ UNCHANGED <<_nodes, _lineGroup, generation>>
    /\ UNCHANGED <<sampler, cloud, auth, event>>

\* the browser runs a requested frame
Frame ==
    \E f \in frames, gap \in FrameGaps, moved \in [_nodes -> {"gps", "moved"}],
       settled \in BOOLEAN :
        LayoutTick(f, gap, moved, settled)

(* ---------------------------------------------------------------------- *)
(* Specifications                                                         *)
(* ---------------------------------------------------------------------- *)
NoOptions ==
    [iconSize |-> Absent, cellSize |-> Absent, onClick |-> "null", isFavorite |-> "null"]

\* Sampling with the default configuration over every collection.  The fadeIn
\* callbacks stay pending here: they change nothing but their own pending set.
Next ==
    \/ \E photos \in Collections : InitSampler(photos, NoOptions)
    \/ Stop
    \/ \E photos \in Collections : SetPhotos(photos)
    \/ Update
    \/ \E size \in CellSizes : SetCellSize(size)
    \/ \E w \in Wests : Pan(w)
    \/ \E h \in DOMAIN exitTimers : ExitTimer(h)

Spec == Init /\ [][Next]_vars

\* the collections of the lifecycle specification: a captioned photo and an
\* uncaptioned one that the favorite store lists
FewCollections == {s \in Collections : Range(s) \subseteq {PhotoUm, PhotoEa}}

\* Configuration, resizing and every timer callback over a few collections
LifecycleNext ==
    \/ \E photos \in FewCollections, opts \in Options : InitSampler(photos, opts)
    \/ Stop
    \/ \E photos \in FewCollections : SetPhotos(photos)
    \/ Update
    \/ \E size \in CellSizes : SetCellSize(size)
    \/ \E size \in IconSizes : UpdateIconSize(size)
    \/ \E h \in fadeInTimers : FadeInTimer(h)
    \/ \E h \in DOMAIN exitTimers : ExitTimer(h)

LifecycleSpec == Init /\ [][LifecycleNext]_vars

\* Passes under a failing rendering collaborator and under degenerate viewports
FaultNext ==
    \/ \E photos \in FewCollections : InitSampler(photos, NoOptions)
    \/ Stop
    \/ \E photos \in FewCollections : SetPhotos(photos)
    \/ Update
    \/ \E throwsAt \in 1..MaxMarkers : UpdateThrows(throwsAt)
    \/ \E size \in CellSizes : SetCellSize(size)
    \/ \E v \in Viewports : Resize(v)
    \/ \E h \in DOMAIN exitTimers : ExitTimer(h)

FaultSpec == Init /\ [][FaultNext]_vars

\* The fault specification under the browser's timer guarantee: a pending
\* 300 ms removal callback is run
FairSpec == FaultSpec /\ \A h \in 1..MaxMarkers : WF_vars(ExitTimer(h))

\* the user's calls and the replay take turns: no call is made while a replay
\* is under way, and a replay starts once every write has had its response
Quiet == \A r \in Runs : replay[r].pc = "idle"

\* values the editor saves: an empty and a non-empty one
TagInputs == {<<>>, <<"x">>}
CaptionInputs == {<<>>, <<"c">>}

\* Favorites: toggles with and without a connection, then the replay
FavoritesNext ==
    \/ InitFirebase(TRUE, <<>>)
    \/ \E uid \in {Uid, NoUid}, photoId \in PhotoIds : Quiet /\ ToggleFavorite(uid, photoId)
    \/ \E request \in requests, ok \in BOOLEAN : WriteDone(request, ok)
    \/ requests = {} /\ Quiet /\ ReplayStart("online")
    \/ \E ok \in BOOLEAN : ReplayLoadDone("online", ok)
    \/ \E ok \in BOOLEAN : ReplayWriteDone("online", ok)

FavoritesSpec == Init /\ [][FavoritesNext]_vars

\* Photo edits: saves with and without a connection, then the replay
EditsNext ==
    \/ InitFirebase(TRUE, <<>>)
    \/ \E photoId \in PhotoIds, tags \in TagInputs : Quiet /\ SavePhotoTags(photoId, tags)
    \/ \E photoId \in PhotoIds, caption \in CaptionInputs :
          Quiet /\ SavePhotoCaption(photoId, caption)
    \/ \E request \in requests, ok \in BOOLEAN : WriteDone(request, ok)
    \/ requests = {} /\ Quiet /\ ReplayStart("online")
    \/ \E ok \in BOOLEAN : ReplayEditDone("online", ok)

EditsSpec == Init /\ [][EditsNext]_vars

\* The queue: toggles and saves of one photo with and without a connection,
\* then one replay at a time
QueueNext ==
    \/ InitFirebase(TRUE, <<>>)
    \/ Quiet /\ ToggleFavorite(Uid, "a")
    \/ \E tags \in TagInputs : Quiet /\ SavePhotoTags("a", tags)
    \/ \E request \in requests, ok \in BOOLEAN : WriteDone(request, ok)
    \/ requests = {} /\ Quiet /\ ReplayStart("online")
    \/ \E ok \in BOOLEAN : ReplayLoadDone("online", ok)
    \/ \E ok \in BOOLEAN : ReplayWriteDone("online", ok)
    \/ \E ok \in BOOLEAN : ReplayEditDone("online", ok)

QueueSpec == Init /\ [][QueueNext]_vars

\* no operation has been written by replays more often than it was queued
OncePerEntry == \A o \in DOMAIN unreplayed : unreplayed[o] >= 0

\* Overlap: writes fail while replays are under way, and the replay the online
\* event starts overlaps the one the firebase-ready timer starts
OverlapNext ==
    \/ InitFirebase(TRUE, <<>>)
    \/ ToggleFavorite(Uid, "a")
    \/ \E request \in requests, ok \in BOOLEAN : WriteDone(request, ok)
    \/ \E r \in Runs : OncePerEntry /\ ReplayStart(r)
    \/ \E r \in Runs, ok \in BOOLEAN : ReplayLoadDone(r, ok)
    \/ \E r \in Runs, ok \in BOOLEAN : ReplayWriteDone(r, ok)

OverlapSpec == Init /\ [][OverlapNext]_vars

\* ForceLayout: runs over every choice of markers, stops, and the frames
LayoutNext ==
    \/ \E spiderfied \in BOOLEAN, visible \in SUBSET Pins : LayoutRun(spiderfied, visible)
    \/ LayoutStop
    \/ Frame

LayoutSpec == Init /\ [][LayoutNext]_vars

\* ForceLayout under the browser's guarantee that a requested animation frame
\* is run unless it is cancelled
FairLayoutSpec == LayoutSpec /\ WF_vars(Frame)

\* photoEdits/all as a page load may find it: empty, or with edits other
\* sessions made
CloudEdits ==
    {NoEdits,
     [id \in PhotoIds |->
         IF id = "a" THEN [tags |-> <<"t">>, caption |-> <<>>]
         ELSE [tags |-> Undefined, caption |-> <<"k">>]]}

PrecedenceInit ==
    /\ SamplerInit
    /\ AuthInit
    /\ LayoutInit
    /\ \E edits \in CloudEdits : CloudInit(<<>>, edits, <<>>)

\* Cloud edits over manifest defaults: loads, and saves for one photo beside
\* the photo other sessions have edited
PrecedenceNext ==
    \/ InitFirebase(TRUE, <<>>)
    \/ LoadPhotoEdits
    \/ \E ok \in BOOLEAN : LoadPhotoEditsDone(ok)
    \/ \E tags \in TagInputs : SavePhotoTags("b", tags)
    \/ \E caption \in CaptionInputs : SavePhotoCaption("b", caption)
    \/ \E request \in requests, ok \in BOOLEAN : WriteDone(request, ok)

PrecedenceSpec == PrecedenceInit /\ [][PrecedenceNext]_vars

\* the manifests migrateFavorites() is given and the favorites old sessions
\* left in localStorage: two keys of one photo, an orphan, a second photo
Manifests == {<<Photo("photos", "a", "jpg"), Photo("photos", "b", "jpg")>>,
              <<Photo("photos", "a", "jpg")>>}
LocalKeys ==
    {<<>>,
     <<Key("photos", "a", "jpg", 0), Key("old", "a", "png", 1)>>,
     <<Key("photos", "z", "jpg", 0), Key("photos", "a", "jpg", 0)>>,
     <<Key("photos", "z", "jpg", 0)>>,
     <<Key("photos", "b", "jpg", 0), Key("photos", "a", "jpg", 0)>>}

\* favorites/{uid} as the first sign-in may find it
CloudFavoriteLists == {<<>>, <<"a">>, <<"b">>}

MigrationInit ==
    /\ SamplerInit
    /\ AuthInit
    /\ LayoutInit
    /\ \E doc \in CloudFavoriteLists, keys \in LocalKeys : CloudInit(doc, NoEdits, keys)

\* Migration at sign-in, with reads and writes that may fail
MigrationNext ==
    \/ InitFirebase(TRUE, <<>>)
    \/ \E uid \in {Uid, NoUid}, manifestPhotos \in Manifests :
          MigrateFavorites(uid, manifestPhotos)
    \/ \E ok \in BOOLEAN : MigrateLoadDone(ok)
    \/ \E ok \in BOOLEAN : MigrateWriteDone(ok)

MigrationSpec == MigrationInit /\ [][MigrationNext]_vars

\* Sign-in, sign-out and listeners, whatever firebase-init.js achieved
AuthNext ==
    \/ \E works \in BOOLEAN, editors \in EditorLists : InitFirebase(works, editors)
    \/ InitAuth
    \/ \E user \in Users \cup {NoUser} : AuthStateChanged(user)
    \/ \E callback \in Listeners : OnAuthChange(callback)

AuthSpec == Init /\ [][AuthNext]_vars

(* ---------------------------------------------------------------------- *)
(* Properties                                                             *)
(* ---------------------------------------------------------------------- *)
\* the state was produced by an operation that ran an update pass
AfterPass == last.op \in PassOps

\* the grid cell of a photo as the pass computes it:
\* (floor(x / cellSize), floor(y / cellSize)) of its container point
GridCell(p) ==
    <<latLngToContainerPoint(west, p).x \div _cellSize,
      latLngToContainerPoint(west, p).y \div _cellSize>>

\* C1: after an update pass the keys of _markers are exactly the keys of the
\* bucket winners of that pass; the key of a photo that is no longer a winner
\* is not tracked any more, even while its marker still fades on the layer.
C1_ActiveKeysAreWinners ==
    AfterPass =>
        /\ DOMAIN _markers = DOMAIN NextMarkers(_photos, west, _cellSize)
        /\ \A h \in DOMAIN exitTimers : h \notin Tracked(_markers)

\* a pass has left a marker fading on the layer whose key is no longer tracked,
\* next to a tracked winner
C1_Witness ==
    /\ AfterPass
    /\ _markers /= <<>>
    /\ \E h \in DOMAIN exitTimers : h \in layers /\ exitTimers[h] \notin DOMAIN _markers

\* C2: after an update pass no two active markers project to the same grid
\* cell (floor(x/cellSize), floor(y/cellSize)) under the viewport and the
\* cellSize of that pass, whatever operations came before.
C2_OnePerCell ==
    AfterPass =>
        \A j, k \in DOMAIN _markers :
            j /= k => GridCell(heap[_markers[j]].photo) /= GridCell(heap[_markers[k]].photo)

\* a pass over two visible photos of one cell has left a single active marker
C2_Witness ==
    /\ AfterPass
    /\ Cardinality(DOMAIN _markers) = 1
    /\ \E i, j \in DOMAIN _photos :
          /\ i /= j
          /\ ~_photos[i]._isFavorite /\ ~_photos[j]._isFavorite
          /\ boundsContains(west, _photos[i]) /\ boundsContains(west, _photos[j])
          /\ GridCell(_photos[i]) = GridCell(_photos[j])

\* C3: a photo for which the isFavorite predicate given to init() returns true
\* is never a bucket member, never counted in a hidden-count and never an
\* active marker after an update pass, whatever flag its record stores.
C3_PredicateExcludesFavorites ==
    AfterPass =>
        /\ \A p \in Range(VisiblePhotos(_photos, west)) : ~isFavorite(_favGetter, p)
        /\ \A k \in DOMAIN _markers : ~isFavorite(_favGetter, heap[_markers[k]].photo)

\* C4: of two non-favorite photos with distinct keys in one grid cell, one
\* captioned and one not, the captioned one is the bucket winner: the
\* uncaptioned one is never the active marker of that cell after a pass.
C4_CaptionedWins ==
    AfterPass =>
        \A p, q \in Range(VisiblePhotos(_photos, west)) :
            (/\ photoKey(p) /= photoKey(q)
             /\ GridCell(p) = GridCell(q)
             /\ p.caption /\ ~q.caption)
            => /\ photoKey(q) \notin DOMAIN _markers
               /\ photoPriority(p) > photoPriority(q)

\* C5: the priority has no ties over photos with distinct keys, so the active
\* marker set after a pass is the one every permutation of the collection
\* would have produced.
C5_OrderIndependent ==
    AfterPass =>
        /\ \A i, j \in DOMAIN _photos :
              i /= j => photoPriority(_photos[i]) /= photoPriority(_photos[j])
        /\ \A q \in {c \in Collections : Range(c) = Range(_photos)} :
              DOMAIN NextMarkers(q, west, _cellSize) = DOMAIN _markers

\* C6: after an update pass every active marker whose bucket has N members
\* displays a hidden-count of N - 1 (no badge for N = 1), whether the pass
\* created the marker or retained it.
C6_BadgeShowsHiddenCount ==
    AfterPass =>
        \A k \in DOMAIN _markers :
            DisplayedCount(heap[_markers[k]]) =
                Len(Bucket(VisiblePhotos(_photos, west),
                           GridCell(heap[_markers[k]].photo), west, _cellSize)) - 1

\* C7: a key that is a winner in two consecutive passes keeps its marker
\* handle: no marker is created for it, it gets no removal timer, it is not
\* re-added to the layer or faded in again, and of its marker only the badge
\* may change.
C7_RetainedHandleStable ==
    [][last'.op \in PassOps =>
          \A k \in DOMAIN _markers \cap DOMAIN _markers' :
              /\ _markers'[k] = _markers[k]
              /\ _markers[k] \notin DOMAIN exitTimers'
              /\ (_markers[k] \in layers') = (_markers[k] \in layers)
              /\ (_markers[k] \in fadeInTimers') = (_markers[k] \in fadeInTimers)
              /\ heap'[_markers[k]] =
                     [heap[_markers[k]] EXCEPT !.el.badge = heap'[_markers[k]].el.badge]
      ]_vars

\* a pass has retained a marker and set its badge: markers are created without one
C7_Witness ==
    /\ AfterPass
    /\ \E k \in DOMAIN _markers :
          /\ heap[_markers[k]].el.badge /= <<>>
          /\ _markers[k] \in layers

\* C8: the removal timer of a marker whose key has been given a replacement
\* marker detaches only the old handle: _markers is unchanged and every
\* tracked marker on the layer stays on the layer, in every interleaving.
C8_LateRemovalSparesReplacement ==
    [][last'.op = "exitTimer" =>
          /\ _markers' = _markers
          /\ layers \ layers' \subseteq DOMAIN exitTimers \ DOMAIN exitTimers'
          /\ \A k \in DOMAIN _markers : _markers[k] \in layers => _markers'[k] \in layers'
      ]_vars

\* a removal timer has fired for a key that is tracked again, and the
\* replacement marker is on the layer
C8_Witness ==
    /\ last.op = "exitTimer"
    /\ last.key \in DOMAIN _markers
    /\ _markers[last.key] \in layers

\* C9: stop() leaves no active marker and an empty layer even with timers
\* pending, and a fadeIn or removal callback that was pending at stop() changes
\* neither _markers nor the layer when it fires, also after a new init().
C9_StopSilencesTimers ==
    [][/\ last'.op = "stop" => _markers' = <<>> /\ layers' = {}
       /\ (last'.op \in {"fadeInTimer", "exitTimer"} /\ last'.stale)
              => _markers' = _markers /\ layers' = layers
      ]_vars

\* a removal timer that was pending at stop() has fired after a new init()
\* that put a marker on the layer
C9_Witness ==
    /\ last.op = "exitTimer"
    /\ last.stale
    /\ _layerGroup /= "null"
    /\ _markers /= <<>>
    /\ Tracked(_markers) \subseteq layers

\* C10: init() on an initialized sampler, with no stop() in between, resets the
\* tracking: afterwards _markers holds no handle it held before, and every
\* active marker has the icon size and the click handler of this call and
\* sits alone in its cell of this call's grid.
C10_ReinitResets ==
    [][(last'.op = "init" /\ _layerGroup /= "null") =>
          /\ \A k \in DOMAIN _markers' :
                /\ _markers'[k] \notin Tracked(_markers)
                /\ heap'[_markers'[k]].iconSize = _iconSize'
                /\ heap'[_markers'[k]].el.width = _iconSize'
                /\ heap'[_markers'[k]].click = (_onClickHandler' /= "null")
          /\ DOMAIN _markers' = DOMAIN NextMarkers(_photos', west', _cellSize')
      ]_vars

\* C11: when createMarker() throws for one winner during update(), the rest
\* of the pass still completes: every other winner of the pass is tracked
\* afterwards and only the failing key is absent from _markers.
C11_ThrowSparesOtherWinners ==
    [][\A throwsAt \in 1..MaxMarkers :
          UpdateThrows(throwsAt) =>
              /\ DOMAIN _markers' \subseteq DOMAIN NextMarkers(_photos, west, _cellSize)
              /\ Cardinality(DOMAIN NextMarkers(_photos, west, _cellSize)
                                 \ DOMAIN _markers') = 1
      ]_vars

\* C12: a pass under a degenerate viewport (a container of 0 x 0 pixels, or NaN
\* bounds) treats no photo as visible and leaves no active marker, whatever
\* the collection.
C12_DegenerateViewportShowsNothing ==
    (AfterPass /\ viewport \in {"zero", "nan"}) =>
        /\ VisiblePhotos(_photos, west) = <<>>
        /\ _markers = <<>>

\* C13: stop() can run in any state, also before init() and after another
\* stop(); it leaves _markers empty, the layer group gone and the sampler
\* uninitialized, so that update() creates no marker until the next init().
C13_StopUninitializes ==
    [][/\ ENABLED Stop
       /\ Stop => _markers' = <<>> /\ layers' = {} /\ _layerGroup' = "null"
       /\ (Update /\ _layerGroup = "null")
              => /\ _markers' = <<>> /\ layers' = {} /\ _layerGroup' = "null"
                 /\ nextHandle' = nextHandle
                 /\ fadeInTimers' = fadeInTimers
      ]_vars

\* update() has returned early on a sampler that was initialized and stopped,
\* with photos in the collection
C13_Witness ==
    /\ last.op = "updateSkipped"
    /\ _map = "map"
    /\ _photos /= <<>>
    /\ _markers = <<>>

\* C14: update(), setCellSize(size) and updateIconSize(size) on a sampler that
\* is not initialized (before init() or after stop()) create and remove no
\* marker and leave _markers empty.
C14_UninitializedNoOps ==
    [][(/\ _layerGroup = "null"
        /\ \/ Update
           \/ \E size \in CellSizes : SetCellSize(size)
           \/ \E size \in IconSizes : UpdateIconSize(size))
       => /\ _markers = <<>> /\ _markers' = <<>>
          /\ UNCHANGED <<layers, heap, nextHandle, fadeInTimers, exitTimers>>
      ]_vars

\* update(), after updateIconSize(60) and setCellSize(50), has run before any
\* init() with photos in the collection
C14_Witness ==
    /\ last.op = "updateSkipped"
    /\ _map = "null"
    /\ _iconSize /= DefaultIconSize
    /\ _cellSize /= DefaultCellSize
    /\ _photos /= <<>>
    /\ _markers = <<>>

\* C15: init() without a cellSize option buckets with the default cell edge of
\* 150 pixels, whatever setCellSize(), init() or stop() calls came before.
C15_InitDefaultsCellSize ==
    [][\A photos \in Collections :
          InitSampler(photos, NoOptions) =>
              /\ _cellSize' = DefaultCellSize
              /\ DOMAIN _markers' = DOMAIN NextMarkers(photos, west, DefaultCellSize)
      ]_vars

\* C16: an update() that directly follows a pass, with collection, viewport and
\* cellSize unchanged, creates no marker, starts no exit transition and leaves
\* _markers and every displayed hidden-count as they were.
C16_SecondUpdateIdempotent ==
    [][(AfterPass /\ Update) =>
          /\ nextHandle' = nextHandle
          /\ exitTimers' = exitTimers
          /\ _markers' = _markers
          /\ \A k \in DOMAIN _markers :
                DisplayedCount(heap'[_markers[k]]) = DisplayedCount(heap[_markers[k]])
      ]_vars

\* C17: after an update pass no photo outside the viewport bounds of that pass
\* is an active marker or counted in a hidden-count, whatever its score and
\* whether or not it was active before.
C17_CulledPhotosNeverActive ==
    AfterPass =>
        \A k \in DOMAIN _markers :
            /\ boundsContains(west, heap[_markers[k]].photo)
            /\ DisplayedCount(heap[_markers[k]]) <
                   Cardinality({i \in DOMAIN _photos :
                                   /\ boundsContains(west, _photos[i])
                                   /\ GridCell(_photos[i]) =
                                          GridCell(heap[_markers[k]].photo)})

\* a pass has started the exit of a marker whose photo is still in the
\* collection but now outside the viewport, and kept a winner inside it
C17_Witness ==
    /\ AfterPass
    /\ _markers /= <<>>
    /\ \E i \in DOMAIN _photos, h \in DOMAIN exitTimers :
          /\ ~_photos[i]._isFavorite
          /\ ~boundsContains(west, _photos[i])
          /\ exitTimers[h] = photoKey(_photos[i])
          /\ h \in layers

\* C18: a pass over a collection in which every photo is filtered out (all
\* favorites, all outside the viewport, or no photo at all) ends with no
\* active marker and with an exit transition started for every marker that
\* was active before it.
C18_AllFilteredEmptiesMarkers ==
    [][(last'.op \in PassOps /\ VisiblePhotos(_photos', west') = <<>>) =>
          /\ _markers' = <<>>
          /\ Tracked(_markers) \subseteq DOMAIN exitTimers'
          /\ Tracked(_markers) \subseteq layers'
      ]_vars

\* a pass over a non-empty collection with no visible photo has left no active
\* marker and a marker fading on the layer
C18_Witness ==
    /\ AfterPass
    /\ _photos /= <<>>
    /\ VisiblePhotos(_photos, west) = <<>>
    /\ _markers = <<>>
    /\ \E h \in DOMAIN exitTimers : h \in layers

\* C19: when setCellSize(size) returns on an initialized sampler, the active
\* markers are the winners of bucketing the visible photos with the new size,
\* each displaying the hidden-count of its new bucket.
C19_SetCellSizeTakesEffect ==
    last.op = "setCellSize" =>
        /\ DOMAIN _markers = DOMAIN NextMarkers(_photos, west, _cellSize)
        /\ \A k \in DOMAIN _markers :
              DisplayedCount(heap[_markers[k]]) =
                  NextMarkers(_photos, west, _cellSize)[k].hiddenCount

\* C20: setPhotos(photos) replaces the working collection only: _markers, the
\* layer, the markers with their badges and the timers are unchanged; the
\* update() that follows computes the winners from the new collection alone.
C20_SetPhotosOnlyReplaces ==
    [][/\ SetPhotos(_photos')
              => UNCHANGED <<_markers, layers, heap, nextHandle, fadeInTimers, exitTimers>>
       /\ (~Uninitialized(_map, _layerGroup) /\ last'.op = "update" /\ Update)
              => DOMAIN _markers' = DOMAIN NextMarkers(_photos, west, _cellSize)
      ]_vars

\* setPhotos() has replaced the collection while the marker of a photo that is
\* no longer in it stays active on the layer
C20_Witness ==
    /\ last.op = "idle"
    /\ _layerGroup /= "null"
    /\ \E k \in DOMAIN _markers :
          /\ \A i \in DOMAIN _photos : photoKey(_photos[i]) /= k
          /\ _markers[k] \in layers
          /\ _markers[k] \notin DOMAIN exitTimers

\* C21: updateIconSize(size) recomputes no bucket: it leaves the keys and the
\* marker handles of _markers unchanged, and when it returns every active
\* marker displays the same hidden-count as before, rendered at the new size.
C21_ResizeKeepsBadges ==
    [][UpdateIconSize(_iconSize')
          => /\ _markers' = _markers
             /\ \A k \in DOMAIN _markers :
                   /\ heap'[_markers[k]].iconSize = _iconSize'
                   /\ DisplayedCount(heap'[_markers[k]]) = DisplayedCount(heap[_markers[k]])
      ]_vars

\* C22 as stated: getBounds() returns the empty sentinel exactly when no marker
\* is active, and otherwise a box that contains the position of every active
\* marker and of no exiting marker.
C22_BoundsExcludeExiting ==
    /\ getBounds = NoBounds <=> DOMAIN _markers = {}
    /\ \A h \in Tracked(_markers) : Covers(getBounds, heap[h].photo)
    /\ \A h \in Exiting : ~Covers(getBounds, ExitingPhoto(h))

\* C22, amended: getBounds() returns the empty sentinel exactly when no marker
\* is active, and otherwise the smallest box that contains the position of
\* every active marker: each side passes through an active marker, so an
\* exiting marker never widens the box.
C22_BoundsOfActiveOnly ==
    /\ getBounds = NoBounds <=> DOMAIN _markers = {}
    /\ \A h \in Tracked(_markers) : Covers(getBounds, heap[h].photo)
    /\ DOMAIN _markers /= {} =>
          /\ \E h \in Tracked(_markers) : heap[h].photo.lat = getBounds.south
          /\ \E h \in Tracked(_markers) : heap[h].photo.lat = getBounds.north
          /\ \E h \in Tracked(_markers) : heap[h].photo.lng = getBounds.west
          /\ \E h \in Tracked(_markers) : heap[h].photo.lng = getBounds.east

\* a marker is active while an exiting marker at another position is still on
\* the layer, outside the box of the active one
C22_Witness ==
    /\ DOMAIN _markers /= {}
    /\ \E h \in Exiting : ~Covers(getBounds, ExitingPhoto(h))

\* C23: whenever the sampler is configured with an onClick callback, a click
\* on any marker of _markers invokes it: every active marker carries the click
\* listener, also a marker created before a later init() configured the
\* callback and retained since.
C23_ActiveMarkersAreClickable ==
    _onClickHandler /= "null" => \A h \in Tracked(_markers) : heap[h].click

\* C30: the exit transition of a key starts in the pass in which the key
\* leaves the winners, every marker that started an exit transition is
\* eventually detached from the render layer (by its timer or by stop()), and
\* the layer holds the active markers and the exiting ones only: once the
\* timers have run, the markers on the layer are exactly the Active Marker Set.
C30_ExitingMarkersLeave ==
    /\ [][last'.op \in PassOps =>
             \A k \in DOMAIN _markers \ DOMAIN _markers' :
                 (_markers[k] \in layers /\ heap[_markers[k]].el.present)
                     => (_markers[k] \in DOMAIN exitTimers' /\ _markers[k] \in layers')
         ]_vars
    /\ [](layers = Tracked(_markers) \cup Exiting)
    /\ \A h \in 1..MaxMarkers : (h \in Exiting) ~> (h \notin layers)

\* the timer of an exiting marker has detached it while another marker is
\* active: the layer holds exactly the active markers
C30_Witness ==
    /\ last.op = "exitTimer"
    /\ ~last.stale
    /\ _markers /= <<>>
    /\ Exiting = {}
    /\ layers = Tracked(_markers)

\* C24: every toggleFavorite, savePhotoTags or savePhotoCaption call whose
\* Firestore write does not succeed (the write is rejected, or there is no
\* connection or no uid) appends exactly one matching operation to the
\* pending-writes queue.
C24_FailedWritesAreQueued ==
    [][/\ \A uid \in {Uid, NoUid}, photoId \in PhotoIds :
             (ToggleFavorite(uid, photoId) /\ ~event'.sent)
                 => pendingWrites' =
                        Append(pendingWrites, Op("toggleFavorite", uid, photoId, Undefined))
       /\ \A photoId \in PhotoIds, tags \in TagInputs :
             (SavePhotoTags(photoId, tags) /\ ~event'.sent)
                 => pendingWrites' =
                        Append(pendingWrites, Op("savePhotoTags", NoUid, photoId, tags))
       /\ \A photoId \in PhotoIds, caption \in CaptionInputs :
             (SavePhotoCaption(photoId, caption) /\ ~event'.sent)
                 => pendingWrites' =
                        Append(pendingWrites, Op("savePhotoCaption", NoUid, photoId, caption))
       /\ \A request \in requests :
             WriteDone(request, FALSE) => pendingWrites' = Append(pendingWrites, request.op)
      ]_vars

\* C25: once a _replayPendingWrites() run in which every read and write
\* succeeded has finished, the queue is empty and the cloud document gives each
\* photo whose toggles all reached the write the favorite status the user set
\* locally, whichever of the toggles failed before the replay.
C25_ReplaySyncsFavorites ==
    (event.op = "replayDone" /\ event.clean) =>
        /\ pendingWrites = <<>>
        /\ \A id \in DOMAIN userFavorite :
              userFavorite[id].sent => (Includes(favoritesDoc, id) = userFavorite[id].favorite)

\* C26: the most recent write wins: once a replay in which every write
\* succeeded has emptied the queue, the cloud value of a photo's tags and
\* caption is the value of the most recent savePhotoTags/savePhotoCaption call
\* for the photo, as the local cache has it.
C26_LastWriteWins ==
    (event.op = "replayDone" /\ event.clean) =>
        /\ pendingWrites = <<>>
        /\ \A id \in PhotoIds :
              /\ lastSaved[id].tags /= Undefined =>
                    (photoEditsDoc[id].tags = lastSaved[id].tags
                        /\ _photoEdits[id].tags = lastSaved[id].tags)
              /\ lastSaved[id].caption /= Undefined =>
                    (photoEditsDoc[id].caption = lastSaved[id].caption
                        /\ _photoEdits[id].caption = lastSaved[id].caption)

\* the tags and the caption a manifest entry may carry: none, empty, some
ManifestDefaults == {Undefined, <<>>, <<"m">>}

\* C27: getEffectiveTags/getEffectiveCaption return the cached cloud value
\* whenever the cache has one for the photo and field (the value just saved,
\* also an empty one, or the value loadPhotoEdits() read) and otherwise the
\* manifest default, [] or '' when the manifest has none; a save of one field
\* changes the effective value of no other field and of no other photo.
C27_CloudEditsTakePrecedence ==
    [][/\ \A photoId \in PhotoIds, tags \in TagInputs :
             SavePhotoTags(photoId, tags) =>
                 \A m \in ManifestDefaults :
                    /\ getEffectiveTags(photoId, m)' = tags
                    /\ \A id \in PhotoIds :
                          /\ getEffectiveCaption(id, m)' = getEffectiveCaption(id, m)
                          /\ id /= photoId =>
                                getEffectiveTags(id, m)' = getEffectiveTags(id, m)
       /\ \A photoId \in PhotoIds, caption \in CaptionInputs :
             SavePhotoCaption(photoId, caption) =>
                 \A m \in ManifestDefaults :
                    /\ getEffectiveCaption(photoId, m)' = caption
                    /\ \A id \in PhotoIds :
                          /\ getEffectiveTags(id, m)' = getEffectiveTags(id, m)
                          /\ id /= photoId =>
                                getEffectiveCaption(id, m)' = getEffectiveCaption(id, m)
       /\ LoadPhotoEditsDone(TRUE) =>
              \A m \in ManifestDefaults, id \in PhotoIds :
                 /\ getEffectiveTags(id, m)' =
                        IF photoEditsDoc[id].tags /= Undefined
                        THEN photoEditsDoc[id].tags
                        ELSE IF m = Undefined THEN <<>> ELSE m
                 /\ getEffectiveCaption(id, m)' =
                        IF photoEditsDoc[id].caption /= Undefined
                        THEN photoEditsDoc[id].caption
                        ELSE IF m = Undefined THEN <<>> ELSE m
      ]_vars

\* an empty caption has just been saved for one photo while the cached tags
\* and caption of the other photo are those read from the cloud document
C27_Witness ==
    /\ event.op = "savePhotoCaption"
    /\ _photoEdits["b"].caption = <<>>
    /\ _photoEdits["b"].tags = Undefined
    /\ _photoEdits["a"].tags = <<"t">>
    /\ _photoEdits["a"].caption = <<>>
    /\ lastSaved["a"] = NoEdit

\* an array without a repeated id
NoDuplicates(arr) == \A i, j \in DOMAIN arr : arr[i] = arr[j] => i = j

\* C28: after a successful migrateFavorites() the cloud favorites are the
\* previous cloud favorites together with the localStorage favorites whose id
\* the manifest lists, without duplicates; the localStorage key is backed up
\* and removed then, and only then; a further call changes nothing.
C28_MigrationPreservesFavorites ==
    /\ [](event.op = "migrated" =>
             /\ {favoritesDoc[i] : i \in DOMAIN favoritesDoc} =
                    {event.previous[i] : i \in DOMAIN event.previous}
                        \cup {id \in event.validIds :
                                \E k \in DOMAIN event.raw : KeyPhotoId(event.raw[k]) = id}
             /\ NoDuplicates(favoritesDoc)
             /\ migratedBackup = event.raw
             /\ localFavorites = <<>>)
    /\ [][/\ (localFavorites' /= localFavorites \/ migratedBackup' /= migratedBackup)
                => MigrateWriteDone(TRUE)
          /\ (localFavorites = <<>> /\ migratedBackup /= <<>>) =>
                \A uid \in {Uid, NoUid}, manifestPhotos \in Manifests :
                   MigrateFavorites(uid, manifestPhotos) =>
                      UNCHANGED <<_favorites, favoritesDoc, localFavorites, migratedBackup,
                                  migration>>
         ]_vars

\* C29: in every auth state isEditor is true exactly when a user is signed in
\* whose email is in the authorizedEditors list firebase-init.js read, so it is
\* false after a sign-out and for users without a listed email; on each
\* auth-state change every registered listener is called, in order, with the
\* same {user, isEditor} pair, also after a listener that throws.
C29_EditorIffListed ==
    /\ [](_isEditor <=>
             /\ _currentUser /= NoUser
             /\ \E i \in DOMAIN firebaseApp.authorizedEditors :
                   firebaseApp.authorizedEditors[i] = _currentUser.email)
    /\ [][\A user \in Users \cup {NoUser} :
             AuthStateChanged(user) =>
                 /\ DOMAIN delivered' = DOMAIN _callbacks
                 /\ \A i \in DOMAIN _callbacks :
                       delivered'[i] = [listener |-> _callbacks[i].id,
                                        user |-> _currentUser',
                                        isEditor |-> _isEditor']
         ]_vars

\* a listed editor is signed in and both listeners, the throwing one first,
\* have been told so
C29_Witness ==
    /\ event.op = "authStateChanged"
    /\ _isEditor
    /\ Len(_callbacks) = 2
    /\ _callbacks[1].throws
    /\ Len(delivered) = 2

\* C31: in every state reached by init, update, setCellSize, setPhotos,
\* updateIconSize, stop and the timer callbacks, each marker of _markers is a
\* layer of the live layer group, and each layer of the group is a marker of
\* _markers or a marker whose removal timer is pending.
C31_NoMarkerLeaked ==
    /\ \A k \in DOMAIN _markers : _layerGroup /= "null" /\ _markers[k] \in layers
    /\ \A h \in layers : h \in Tracked(_markers) \/ h \in DOMAIN exitTimers

\* a pass has replaced a marker: the new one is tracked and on the layer, the
\* old one is on the layer with its removal timer pending
C31_Witness ==
    /\ last.op \in PassOps
    /\ \E h \in layers : h \in Tracked(_markers)
    /\ \E h \in layers : h \notin Tracked(_markers) /\ h \in DOMAIN exitTimers

\* the photos the active markers account for: each marker its own photo and
\* the hidden-count it displays
RECURSIVE AccountedFor(_)
AccountedFor(handles) ==
    IF handles = {} THEN 0
    ELSE LET h == CHOOSE g \in handles : TRUE
         IN 1 + DisplayedCount(heap[h]) + AccountedFor(handles \ {h})

\* C32: after an update pass over a collection with pairwise distinct keys,
\* the sum over the active markers of 1 + hidden-count equals the number of
\* non-favorite photos of the collection inside the viewport bounds.
C32_EveryVisiblePhotoCounted ==
    AfterPass => AccountedFor(Tracked(_markers)) = Len(VisiblePhotos(_photos, west))

\* C33: no sampler operation changes a field of a photo record or the order
\* of the host's collection: after init(photos) and setPhotos(photos) the
\* host's array is element for element the collection passed in, and update,
\* setCellSize, updateIconSize, stop and the timer callbacks leave it as it was.
C33_HostCollectionUntouched ==
    [][/\ \A photos \in FewCollections :
              (SetPhotos(photos) \/ \E opts \in Options : InitSampler(photos, opts))
                  => hostPhotos' = photos
       /\ (last'.op /= "init" /\ \A photos \in FewCollections : ~SetPhotos(photos))
              => hostPhotos' = hostPhotos
      ]_vars

\* a pass has sorted a bucket into another order than the collection's: the
\* winner is the second photo of the host's array
C33_Witness ==
    /\ AfterPass
    /\ Len(hostPhotos) = 2
    /\ SortBucket(hostPhotos) /= hostPhotos
    /\ DOMAIN _markers = {photoKey(hostPhotos[2])}

\* the entries of a queue at the given positions among the first n, in queue order
RECURSIVE EntriesAt(_, _, _)
EntriesAt(queue, positions, n) ==
    IF n = 0 THEN <<>>
    ELSE IF n \in positions THEN Append(EntriesAt(queue, positions, n - 1), queue[n])
    ELSE EntriesAt(queue, positions, n - 1)

\* C34: when a _replayPendingWrites run completes, the stored queue holds
\* exactly the operations whose write was rejected in that run, in their
\* original order (those written are gone), and a run without a Firestore
\* connection leaves the stored queue as it was.
C34_QueueHoldsFailedWrites ==
    [][/\ \A r \in Runs, ok \in BOOLEAN :
              ((ReplayWriteDone(r, ok) \/ ReplayEditDone(r, ok)) /\ replay'[r].pc = "idle")
                  => pendingWrites' =
                         EntriesAt(replay[r].queue,
                                   replay[r].failed \cup (IF ok THEN {} ELSE {replay[r].i}),
                                   Len(replay[r].queue))
       /\ event'.op = "replayOffline" => pendingWrites' = pendingWrites
      ]_vars

\* a run of two operations has completed with one of them left in the queue
C34_Witness ==
    /\ event.op = "replayDone"
    /\ event.length = 2
    /\ Len(pendingWrites) = 1

\* C35: an operation that a failing toggleFavorite, savePhotoTags or
\* savePhotoCaption appends to the queue while a _replayPendingWrites run is
\* suspended at an await is in the stored queue when that run finishes, unless
\* a replay has written it to Firestore in the meantime.
C35_ReplayKeepsLateOperations ==
    [][\A r \in Runs, ok \in BOOLEAN :
           ((ReplayWriteDone(r, ok) \/ ReplayEditDone(r, ok)) /\ replay'[r].pc = "idle")
               => \A j \in DOMAIN replay[r].appended :
                      Includes(pendingWrites', replay[r].appended[j])
      ]_vars

\* C36: when the replay of the online event and the replay of the
\* firebase-ready timer overlap, no queued operation is written to Firestore
\* more often than it was queued; a queued toggle is not applied twice.
C36_AppliedAtMostOnce == OncePerEntry

\* the photo ids a write has removed from favorites/{uid}
Dropped(before, after) == Range(before) \ Range(after)

\* C37: a favorites write that succeeds removes from favorites/{uid} no photo
\* id other than the one its operation targets: the write of toggleFavorite
\* and the replayed write of a queued toggle remove at most their photoId, the
\* write of migrateFavorites removes none, also when the read before the write
\* has failed.
C37_WritesKeepOtherFavorites ==
    [][/\ \A request \in requests :
              (request.kind = "setFavorites" /\ WriteDone(request, TRUE))
                  => Dropped(favoritesDoc, favoritesDoc') \subseteq {request.op.photoId}
       /\ \A r \in Runs :
              ReplayWriteDone(r, TRUE)
                  => Dropped(favoritesDoc, favoritesDoc')
                         \subseteq {replay[r].queue[replay[r].i].photoId}
       /\ MigrateWriteDone(TRUE) => Dropped(favoritesDoc, favoritesDoc') = {}
      ]_vars

\* C38: onAuthChange(callback) calls the callback at once only when the
\* onAuthStateChanged observer has already reported the auth state; a callback
\* registered before that is not called with the initial signed-out
\* placeholder, and is called when the first report arrives.
C38_NoCallBeforeResolution ==
    [][/\ \A callback \in Listeners :
              OnAuthChange(callback) =>
                  delivered' = IF resolved
                               THEN <<[listener |-> callback.id, user |-> _currentUser,
                                       isEditor |-> _isEditor]>>
                               ELSE <<>>
       /\ \A user \in Users \cup {NoUser} :
              (AuthStateChanged(user) /\ ~resolved) =>
                  \A i \in DOMAIN _callbacks :
                      \E j \in DOMAIN delivered' : delivered'[j].listener = _callbacks[i].id
      ]_vars

(* ---------------------------------------------------------------------- *)
(* ForceLayout: termination and cancellation                              *)
(* ---------------------------------------------------------------------- *)
\* the frame f is run
TickOf(f) ==
    \E gap \in FrameGaps, moved \in [_nodes -> {"gps", "moved"}], settled \in BOOLEAN :
        LayoutTick(f, gap, moved, settled)

\* ForceLayout.run() is called
RunCalled == \E spiderfied \in BOOLEAN, visible \in SUBSET Pins : LayoutRun(spiderfied, visible)

\* C39: a run makes at most MAX_ITERATIONS simulation steps and its loop comes
\* to an end with no frame requested; stop() and a new run() leave no frame of
\* the loop before them to be run, so every tick belongs to the latest run,
\* and they put every marker back at its GPS position
C39_LoopEndsAndStopRestores ==
    /\ [](steps <= MAX_ITERATIONS)
    /\ (frames /= {}) ~> (frames = {} /\ _timer = NoFrame)
    /\ [][LayoutStop => frames' = {}]_vars
    /\ [][RunCalled => \A f \in frames' : f.run = generation']_vars
    /\ [][\A f \in frames : TickOf(f) => f.run = generation]_vars
    /\ [][LayoutStop \/ RunCalled => \A m \in Pins : position'[m] = "gps"]_vars

\* a run over both markers made MAX_ITERATIONS steps and was stopped
C39_Witness ==
    /\ generation = 1
    /\ steps = MAX_ITERATIONS
    /\ _nodes = {}
    /\ frames = {}
    /\ \A m \in Pins : position[m] = "gps"

====
